---------------------------- MODULE Spec2Model ----------------------------
(***************************************************************************)
(* Desired-state reconciliation of a JAMF Pro server by the salt-jss state *)
(* and execution modules.                                                  *)
(*                                                                         *)
(* The remote server is the variable srv.  Every state function is one     *)
(* synchronous invocation: it fetches (or constructs) the representation   *)
(* of one remote object, reconciles it in memory, and saves it or not.     *)
(* The variable call records the last invocation: its arguments, the       *)
(* representation it fetched, the representation it left in memory, the    *)
(* returned mapping, the number of save calls and the exception raised.    *)
(*                                                                         *)
(* A state function reads and writes only the object it is given, so a     *)
(* run manages one kind of object (the variable focus, fixed in Init):     *)
(* the reachable states are the union over the kinds, not their product.   *)
(***************************************************************************)
EXTENDS Integers, Sequences, FiniteSets, TLC

VARIABLES srv, call, focus, GRAINS_CACHE, DETAILS

vars == <<srv, call, focus, GRAINS_CACHE, DETAILS>>

---------------------------------------------------------------------------
(* Python values.  A value carries its type, so that 'true' (text), True   *)
(* (bool) and None never compare equal, as in Python.                      *)

None == <<"None">>
S(s) == <<"str", s>>
B(b) == <<"bool", b>>
I(n) == <<"int", n>>
L(seq) == <<"list", seq>>

\* str(v)
str(v) ==
    CASE v[1] = "str"  -> v
      [] v[1] = "int"  -> S(ToString(v[2]))
      [] v[1] = "bool" -> S(IF v[2] THEN "True" ELSE "False")
      [] OTHER         -> S("None")

\* A dict: a function from keys to values.  {} is the empty function.
EmptyDict == << >>
Put(d, k, v) == [x \in (DOMAIN d) \cup {k} |-> IF x = k THEN v ELSE d[x]]
Len0(d) == Cardinality(DOMAIN d)

\* changes = {'old': {}, 'new': {}}
NoChanges == [old |-> EmptyDict, new |-> EmptyDict]

\* ret = {'name': name, 'result': False, 'changes': {}, 'comment': ''}
\* result is "True", "False" or "None".
InitialRet(name) == [name |-> name, result |-> "False", changes |-> EmptyDict, comment |-> ""]

---------------------------------------------------------------------------
(* XML.  A child node is Absent, or present with its text: None (empty) or *)
(* a string.                                                               *)

Absent == <<"absent">>

\* Element.findtext(tag): None when no element is found, '' when the
\* element has no text.
findtext(node) ==
    IF node = Absent THEN None
    ELSE IF node = None THEN S("") ELSE node

\* _ensure_xml_str(parent, tag_name, desired_value), on the child node
\* parent.find(tag_name): the node afterwards and the (old, new) pair.
_ensure_xml_str(node, desired_value) ==
    LET old_value == IF node = Absent THEN None ELSE node   \* a created child has no text
    IN  IF old_value # desired_value
        THEN [node |-> desired_value, old |-> old_value, new |-> desired_value]
        ELSE [node |-> old_value, old |-> None, new |-> None]

\* _ensure_xml_bool(element, desired_value) on an existing element
_ensure_xml_bool(node, desired_value) ==
    IF desired_value = None
    THEN [node |-> node, old |-> None, new |-> None]
    ELSE IF B(node = S("true")) # desired_value
         THEN [node |-> IF desired_value = B(TRUE) THEN S("true") ELSE S("false"),
               old |-> B(node = S("true")), new |-> desired_value]
         ELSE [node |-> node, old |-> None, new |-> None]

---------------------------------------------------------------------------
(* The server and the client library (python-jss).                         *)

\* The kinds of object a run manages.
Kinds == {"category", "building", "site", "network_segment", "distribution_point",
          "inventory_collection", "policy", "script", "sso_settings", "package",
          "ldap_server", "smart_computer_group", "mac_configuration_profile"}

\* jss.Category(j, name), jss.Building(j, name), jss.Site(j, name): a new
\* object holds its name only.
BlankCategory(name) == [name |-> S(name), priority |-> Absent]
BlankBuilding(name) == [name |-> S(name)]
BlankSite(name) == [name |-> S(name)]
BlankNetworkSegment(name) ==
    [name |-> S(name), starting_address |-> Absent, ending_address |-> Absent,
     distribution_point |-> Absent]

DPStrFields == {"ip_address", "share_name", "read_only_username", "read_only_password",
                "read_write_username", "read_write_password"}
DPFields == DPStrFields \cup {"is_master", "connection_type"}
BlankDistributionPoint(name) == [f \in DPFields \cup {"name"} |-> IF f = "name" THEN S(name) ELSE Absent]

ReservedTriggers == {"startup", "login", "logout", "network_state_changed",
                     "enrollment_complete", "checkin"}

\* jss.Policy(j, name): general/name, enabled, frequency and an empty
\* category, an empty scope, self service and recon switched on; no
\* trigger node and no site.  trigger_other is the list of the texts of the
\* trigger_other children of general, in document order.
BlankPolicy(name) ==
    [name |-> S(name), enabled |-> S("true"), frequency |-> S("Once per computer"),
     site |-> Absent, category |-> Absent,
     triggers |-> [r \in ReservedTriggers |-> Absent], trigger_other |-> << >>,
     all_computers |-> Absent, computer_groups |-> {}, packages |-> {},
     recon |-> S("true"), use_for_self_service |-> S("true")]

\* for p in range(4, 12): the parameter nodes of a script.
ParameterNumbers == 4..11

\* jss.Script(j, name): add_script makes the node script_contents, and
\* manage_script of jamf_scripts.py the parameter nodes.
BlankScript(name) ==
    [name |-> S(name), script_contents |-> Absent,
     parameters |-> [n \in ParameterNumbers |-> Absent]]

\* jss.Package(j, name): the nodes of the library's template, without text.
BlankPackage(name) ==
    [name |-> S(name), category |-> None, filename |-> None, info |-> None, notes |-> None]

\* jss.LDAPServer(j, name) with the connection node that ldap_server adds.
BlankLDAPServer(name) ==
    [name |-> S(name), hostname |-> Absent, port |-> Absent, server_type |-> Absent,
     authentication_type |-> Absent, search_timeout |-> Absent,
     connection_is_used_for |-> Absent]

Blank(kind, name) ==
    CASE kind = "category" -> BlankCategory(name)
      [] kind = "building" -> BlankBuilding(name)
      [] kind = "site" -> BlankSite(name)
      [] kind = "network_segment" -> BlankNetworkSegment(name)
      [] kind = "distribution_point" -> BlankDistributionPoint(name)
      [] kind = "policy" -> BlankPolicy(name)
      [] kind = "script" -> BlankScript(name)
      [] kind = "package" -> BlankPackage(name)
      [] kind = "ldap_server" -> BlankLDAPServer(name)
      [] OTHER -> [name |-> S(name)]

\* The names the runs use, one object per kind.
NameOf(kind) ==
    CASE kind = "category" -> "Apps"
      [] kind = "building" -> "HQ"
      [] kind = "site" -> "Sydney"
      [] kind = "network_segment" -> "Lab"
      [] kind = "distribution_point" -> "DP1"
      [] kind = "inventory_collection" -> "Inventory"
      [] kind = "policy" -> "Update"
      [] kind = "script" -> "Setup"
      [] kind = "sso_settings" -> "SSO"
      [] kind = "package" -> "Firefox.pkg"
      [] kind = "ldap_server" -> "AD"
      [] kind = "smart_computer_group" -> "AppCode Users"
      [] kind = "mac_configuration_profile" -> "WiFi"

\* j.Category(name) and the like: the object, or jss.GetError when the
\* server has none of that name (then the caller constructs a blank one).
Fetch(kind, name) ==
    IF srv[kind].exists THEN srv[kind].el ELSE Blank(kind, name)

\* JSSObject.save(): an object that has no id is POSTed, one that was
\* fetched is PUT; the error raised names the request.
SaveError(existed) == IF existed THEN "PutError" ELSE "PostError"

\* A variant of Outcome where what is changed in memory reaches the server
\* without a save call.
Outcome_write_through(rep, ret, saves, saved, raised) ==
    [rep |-> rep, ret |-> ret, saves |-> saves, saved |-> TRUE, raised |-> raised]

\* The outcome of an invocation: rep is the representation left in memory,
\* saves the number of save calls, saved whether the server took the save,
\* raised the exception that left the function ("" on a normal return).
Outcome(rep, ret, saves, saved, raised) ==
    [rep |-> rep, ret |-> ret, saves |-> saves, saved |-> saved, raised |-> raised]

\* One invocation of a state function on the object of its kind.  again
\* tells that it repeats the invocation before it, which returned success.
Invoke(op, kind, args, test, saveOK, fetches, r) ==
    /\ srv' = IF r.saved THEN [srv EXCEPT ![kind] = [exists |-> TRUE, el |-> r.rep]] ELSE srv
    /\ call' = [op |-> op, kind |-> kind, args |-> args, test |-> test, saveOK |-> saveOK,
                existed |-> srv[kind].exists, pre |-> Fetch(kind, NameOf(kind)),
                rep |-> r.rep, ret |-> r.ret, saves |-> r.saves, fetches |-> fetches,
                raised |-> r.raised,
                files |-> IF "files" \in DOMAIN r THEN r.files ELSE << >>,
                returns |-> IF "returns" \in DOMAIN r THEN r.returns ELSE "ret",
                message |-> IF "message" \in DOMAIN r THEN r.message ELSE "",
                again |-> call.op = op /\ call.args = args /\ call.test = test
                          /\ call.raised = "" /\ call.ret.result = "True"]
    /\ UNCHANGED <<focus, GRAINS_CACHE, DETAILS>>

---------------------------------------------------------------------------
(* _states/jamf_org.py                                                     *)

Priorities == {I(5), I(9), S("5"), S("9")}

\* if current_priority != str(priority):
priority_differs_raw(current_priority, priority) == current_priority # priority
priority_differs(current_priority, priority) == current_priority # str(priority)

\* The changes recorded when an existing category is updated.
category_update_with_name(name, current_priority, priority) ==
    [old |-> Put(EmptyDict, "priority", current_priority),
     new |-> Put(Put(EmptyDict, "name", S(name)), "priority", str(priority))]
category_update(name, current_priority, priority) ==
    [old |-> Put(EmptyDict, "priority", current_priority),
     new |-> Put(EmptyDict, "priority", str(priority))]

\* A variant of category_on that compares the fetched category with the
\* server's before it saves, and reports a conflict.
category_on_checked(el, existed, name, priority, saveOK) ==
    Outcome(el, [InitialRet(name) EXCEPT !.comment = "Conflict"], 0, FALSE, "")

\* category from the fetch on: el is the category fetched (or constructed),
\* existed tells which.
category_on(el, existed, name, priority, saveOK) ==
    LET ret0 == InitialRet(name)
        changed == IF existed THEN priority_differs(el.priority, priority) ELSE TRUE
        changes ==
            IF existed
            THEN IF changed THEN category_update(name, el.priority, priority) ELSE NoChanges
            ELSE [old |-> EmptyDict,
                  new |-> Put(Put(EmptyDict, "name", S(name)), "priority", str(priority))]
        rep == IF changed THEN [el EXCEPT !.priority = str(priority)] ELSE el
        ret == [ret0 EXCEPT !.result = "True",
                            !.comment = IF existed /\ ~changed THEN "No changes required" ELSE "",
                            !.changes = IF Len0(changes.new) > 0 THEN changes ELSE EmptyDict]
    IN  IF changed
        THEN IF saveOK
             THEN Outcome(rep, ret, 1, TRUE, "")
             ELSE Outcome(rep, ret0, 1, FALSE, SaveError(existed))
        ELSE Outcome(rep, ret, 0, FALSE, "")

category_run(name, priority, saveOK) ==
    category_on(Fetch("category", name), srv.category.exists, name, priority, saveOK)

category ==
    \E priority \in Priorities, test \in BOOLEAN, saveOK \in BOOLEAN :
        /\ focus = "category"
        /\ Invoke("category", "category", [priority |-> priority], test, saveOK, 1,
                  category_run(NameOf("category"), priority, saveOK))

building_run(name) ==
    LET existed == srv.building.exists
        ret0 == InitialRet(name)
    IN  IF existed
        THEN Outcome(Fetch("building", name), [ret0 EXCEPT !.result = "True"], 0, FALSE, "")
        ELSE Outcome(BlankBuilding(name), ret0, 0, FALSE, "")

building ==
    \E test \in BOOLEAN :
        /\ focus = "building"
        /\ Invoke("building", "building", EmptyDict, test, TRUE, 1, building_run(NameOf("building")))

site_run(name, saveOK) ==
    LET existed == srv.site.exists
        ret0 == InitialRet(name)
    IN  IF existed
        THEN Outcome(Fetch("site", name), [ret0 EXCEPT !.result = "True"], 0, FALSE, "")
        ELSE IF saveOK
             THEN Outcome(BlankSite(name),
                          [ret0 EXCEPT !.result = "True",
                                       !.changes = [old |-> EmptyDict,
                                                    new |-> Put(EmptyDict, "name", S(name))]],
                          1, TRUE, "")
             ELSE Outcome(BlankSite(name), ret0, 1, FALSE, SaveError(FALSE))

site ==
    \E test \in BOOLEAN, saveOK \in BOOLEAN :
        /\ focus = "site"
        /\ Invoke("site", "site", EmptyDict, test, saveOK, 1, site_run(NameOf("site"), saveOK))

\* The message of the error the server answers a rejected save with.
ServerMessage == "Conflict: duplicate name"

\* if __opts__['test']:
opts_test_ignored(test) == FALSE
opts_test(test) == test

\* The block that ends network_segment and distribution_point: report the
\* changes and, unless __opts__['test'], save.  Only jss.PostError is caught.
FinishOrg(name, rep, changes, test, saveOK, existed) ==
    LET ret0 == InitialRet(name)
    IN  IF Len0(changes.new) > 0
        THEN IF opts_test(test)
             THEN Outcome(rep, [ret0 EXCEPT !.changes = changes, !.result = "None",
                                            !.comment = name \o " would be modified"],
                          0, FALSE, "")
             ELSE IF saveOK
                  THEN Outcome(rep, [ret0 EXCEPT !.changes = changes, !.result = "True",
                                                 !.comment = name \o " was updated"],
                               1, TRUE, "")
                  ELSE IF SaveError(existed) = "PostError"
                       THEN Outcome(rep, [ret0 EXCEPT !.changes = changes, !.result = "False",
                                                      !.comment = "Unable to save " \o name
                                                                  \o ", reason: " \o ServerMessage],
                                    1, FALSE, "")
                       ELSE Outcome(rep, ret0, 1, FALSE, SaveError(existed))
        ELSE Outcome(rep, [ret0 EXCEPT !.comment = name \o " is already in the desired state",
                                       !.result = "True"],
                     0, FALSE, "")

\* One of the three comparisons of network_segment: st is the pair of the
\* representation and the changes so far.
segment_field(st, f, desired) ==
    IF desired # findtext(st.el[f])
    THEN [el |-> [st.el EXCEPT ![f] = desired],
          changes |-> [old |-> IF st.el[f] # Absent
                               THEN Put(st.changes.old, f, st.el[f])
                               ELSE st.changes.old,       \* AttributeError: the node is created
                       new |-> Put(st.changes.new, f, desired)]]
    ELSE st

network_segment_run(name, ip_range, distribution_point, test, saveOK) ==
    LET existed == srv.network_segment.exists
        segment == Fetch("network_segment", name)
        ret0 == InitialRet(name)
    IN  IF ip_range # None /\ Len(ip_range[2]) # 2
        THEN Outcome(segment, ret0, 0, FALSE, "SaltInvocationError")
        ELSE IF ip_range = None
        THEN Outcome(segment, ret0, 0, FALSE, "TypeError")       \* ip_range[0] of None
        ELSE LET s0 == [el |-> segment, changes |-> NoChanges]
                 s1 == segment_field(s0, "starting_address", ip_range[2][1])
                 s2 == segment_field(s1, "ending_address", ip_range[2][2])
                 s3 == segment_field(s2, "distribution_point", distribution_point)
             IN  FinishOrg(name, s3.el, s3.changes, test, saveOK, existed)

Addresses == {S("10.0.0.1"), S("10.0.0.9")}
IpRanges == {None} \cup {L(<<a>>) : a \in Addresses}
                   \cup {L(<<a, b>>) : a \in Addresses, b \in Addresses}
SegmentDPs == {None, S("Cloud")}

network_segment ==
    \E ip_range \in IpRanges, distribution_point \in SegmentDPs,
       test \in BOOLEAN, saveOK \in BOOLEAN :
        /\ focus = "network_segment"
        /\ Invoke("network_segment", "network_segment",
                  [ip_range |-> ip_range, distribution_point |-> distribution_point],
                  test, saveOK,
                  IF ip_range # None /\ Len(ip_range[2]) # 2 THEN 0 ELSE 1,
                  network_segment_run(NameOf("network_segment"), ip_range, distribution_point,
                                      test, saveOK))

\* changes['old'][f], changes['new'][f] = _ensure_xml_str(dp, f, desired)
dp_str_field(st, f, desired) ==
    LET e == _ensure_xml_str(st.el[f], desired)
    IN  [el |-> [st.el EXCEPT ![f] = e.node],
         changes |-> [old |-> Put(st.changes.old, f, e.old),
                      new |-> Put(st.changes.new, f, e.new)]]

\* if is_master is not None: ...
dp_is_master(st, is_master) ==
    IF is_master = None THEN st
    ELSE LET text == IF st.el.is_master = Absent THEN None ELSE st.el.is_master
         IN  IF is_master # text
             THEN [el |-> [st.el EXCEPT !.is_master = str(is_master)],
                   changes |-> [old |-> Put(st.changes.old, "is_master", text),
                                new |-> Put(st.changes.new, "is_master", str(is_master))]]
             ELSE [el |-> [st.el EXCEPT !.is_master = text], changes |-> st.changes]

distribution_point_run(name, a, test, saveOK) ==
    LET existed == srv.distribution_point.exists
        dp == Fetch("distribution_point", name)
        ret0 == InitialRet(name)
    IN  IF a.connection_type \notin {S("SMB"), S("AFP")}
        THEN Outcome(dp, ret0, 0, FALSE, "SaltInvocationError")
        ELSE LET s0 == [el |-> dp, changes |-> NoChanges]
                 s1 == dp_str_field(s0, "ip_address", a.ip_address)
                 s2 == dp_is_master(s1, a.is_master)
                 s3 == dp_str_field(s2, "connection_type", a.connection_type)
                 s4 == dp_str_field(s3, "share_name", a.share_name)
                 s5 == dp_str_field(s4, "read_only_username", a.read_only_username)
                 s6 == dp_str_field(s5, "read_only_password", a.read_only_password)
                 s7 == dp_str_field(s6, "read_write_username", a.read_write_username)
                 s8 == dp_str_field(s7, "read_write_password", a.read_write_password)
             IN  FinishOrg(name, s8.el, s8.changes, test, saveOK, existed)

\* The arguments of the runs: no optional string supplied, one of two of
\* them, or all six.
DPSupplied == {{}, {"ip_address"}, {"read_only_password"}, DPStrFields}
DPValue(f) == S(f \o "-1")
DPArgs ==
    { [f \in DPFields |->
          IF f = "is_master" THEN m
          ELSE IF f = "connection_type" THEN c
          ELSE IF f \in sup THEN DPValue(f) ELSE None] :
      sup \in DPSupplied, m \in {None, B(TRUE)}, c \in {None, S("SMB"), S("AFP")} }

distribution_point ==
    \E a \in DPArgs, test \in BOOLEAN, saveOK \in BOOLEAN :
        /\ focus = "distribution_point"
        /\ Invoke("distribution_point", "distribution_point", a, test, saveOK,
                  IF a.connection_type \notin {S("SMB"), S("AFP")} THEN 0 ELSE 1,
                  distribution_point_run(NameOf("distribution_point"), a, test, saveOK))

---------------------------------------------------------------------------
(* _states/jamf_settings.py                                                *)

\* The node of the computer inventory collection preferences that each
\* argument of inventory_collection is compared with.
InventoryNode(setting) ==
    CASE setting = "local_users" -> "local_user_accounts"
      [] setting = "printers" -> "printers"
      [] setting = "home_directory_sizes" -> "home_directory_sizes"
      [] setting = "hidden_accounts" -> "hidden_accounts"
      [] setting = "services" -> "active_services"
      [] setting = "mobile_last_backup" -> "mobile_device_app_purchasing_info"
      [] setting = "package_receipts" -> "package_receipts"
      [] setting = "software_updates" -> "available_software_updates"
      [] setting = "ibeacon_regions" -> "computer_location_information"
      [] setting = "applications" -> "include_applications"
      [] setting = "fonts" -> "include_fonts"
      [] setting = "plugins" -> "include_plugins"

\* The settings reconciled by _ensure_xml_bool, and those compared inline.
InventoryEnsured == {"local_users", "printers", "home_directory_sizes", "hidden_accounts"}
InventoryInline == {"services", "mobile_last_backup", "package_receipts", "software_updates",
                    "ibeacon_regions", "applications", "fonts", "plugins"}
InventorySettings == InventoryEnsured \cup InventoryInline
InventoryNodes == {InventoryNode(x) : x \in InventorySettings}

\* Whether a setting is reported in changes, and its node rewritten.
inventory_differs(prefs, a, setting) ==
    IF setting \in InventoryEnsured
    THEN _ensure_xml_bool(prefs[InventoryNode(setting)], a[setting]).new # None
    ELSE a[setting] # None /\ B(prefs[InventoryNode(setting)] = S("true")) # a[setting]

\* changes['old'][setting]
inventory_old(prefs, a, setting) ==
    IF setting \in InventoryEnsured
    THEN _ensure_xml_bool(prefs[InventoryNode(setting)], a[setting]).old
    ELSE B(prefs[InventoryNode(setting)] = S("true"))

\* changes['new'][setting]
inventory_new(prefs, a, setting) ==
    IF setting \in InventoryEnsured
    THEN _ensure_xml_bool(prefs[InventoryNode(setting)], a[setting]).new
    ELSE IF setting = "services" THEN a["hidden_accounts"] ELSE a[setting]

\* The text written to the node of a setting that differs.
inventory_text(prefs, a, setting) ==
    IF setting \in InventoryEnsured
    THEN _ensure_xml_bool(prefs[InventoryNode(setting)], a[setting]).node
    ELSE str(a[setting])

\* if len(changes['new'].keys()) > 0: ... (the save is not guarded)
FinishInventory(name, rep, changes, test, saveOK) ==
    LET ret0 == InitialRet(name)
    IN  IF Len0(changes.new) > 0
        THEN IF opts_test(test)
             THEN Outcome(rep, [ret0 EXCEPT !.changes = changes, !.result = "None",
                                            !.comment = name \o " would be modified"],
                          0, FALSE, "")
             ELSE IF saveOK
                  THEN Outcome(rep, [ret0 EXCEPT !.changes = changes, !.result = "True",
                                                 !.comment = name \o " was updated"],
                               1, TRUE, "")
                  ELSE Outcome(rep, ret0, 1, FALSE, SaveError(TRUE))
        ELSE Outcome(rep, [ret0 EXCEPT !.comment = name \o " is already in the desired state",
                                       !.result = "True"],
                     0, FALSE, "")

inventory_collection_run(name, a, test, saveOK) ==
    LET collection_prefs == Fetch("inventory_collection", name)
        differing == {x \in InventorySettings : inventory_differs(collection_prefs, a, x)}
        changes == [old |-> [x \in differing |-> inventory_old(collection_prefs, a, x)],
                    new |-> [x \in differing |-> inventory_new(collection_prefs, a, x)]]
        rep == [n \in DOMAIN collection_prefs |->
                   IF \E x \in differing : InventoryNode(x) = n
                   THEN inventory_text(collection_prefs, a,
                                       CHOOSE x \in differing : InventoryNode(x) = n)
                   ELSE collection_prefs[n]]
    IN  FinishInventory(name, rep, changes, test, saveOK)

\* The arguments of the runs: the settings that the runs supply are one
\* that _ensure_xml_bool reconciles and two that are compared inline.
InventorySupplied == {"hidden_accounts", "services", "plugins"}
InventoryArgs ==
    { [x \in InventorySettings |-> IF x \in InventorySupplied THEN v[x] ELSE None] :
      v \in [InventorySupplied -> {None, B(TRUE), B(FALSE)}] }

inventory_collection ==
    \E a \in InventoryArgs, test \in BOOLEAN, saveOK \in BOOLEAN :
        /\ focus = "inventory_collection"
        /\ Invoke("inventory_collection", "inventory_collection", a, test, saveOK, 1,
                  inventory_collection_run(NameOf("inventory_collection"), a, test, saveOK))

---------------------------------------------------------------------------
(* _states/jamf_proxy_policy.py: the representation of a policy.           *)

\* The text of the first general/trigger_other, as findtext gives it.
other_text(policy) ==
    IF policy.trigger_other = << >> THEN None ELSE findtext(policy.trigger_other[1])

\* if policy.general.findtext('trigger_other'): the test is false of None
\* and of the empty string.
truthy(text) == text # None /\ text # S("")

\* A variant that takes the text of every trigger_other node for a trigger.
old_triggers_any_other(policy) ==
    {r \in ReservedTriggers : findtext(policy.triggers[r]) = S("true")}
        \cup (IF policy.trigger_other # << >> THEN {other_text(policy)[2]} ELSE {})

\* old_triggers: the reserved triggers whose flag reads 'true', and the
\* custom trigger when its text is not empty.
old_triggers(policy) ==
    {r \in ReservedTriggers : findtext(policy.triggers[r]) = S("true")}
        \cup (IF truthy(other_text(policy)) THEN {other_text(policy)[2]} ELSE {})

\* set(triggers), and list(a set): a list in an order that is not fixed.
ListOfSet(set) == <<"list", set>>
SetOf(list) == {list[2][i] : i \in 1..Len(list[2])}

\* policy.find('trigger_other'): a child of the policy itself.  The trigger
\* nodes are children of general, so the search finds nothing.
root_trigger_other(policy) == Absent

\* The flags after the two loops over the reserved triggers.
reserved_after(policy, triggers_remove, triggers_add) ==
    [r \in ReservedTriggers |->
        IF r \in triggers_remove /\ policy.triggers[r] = S("true") THEN S("false")
        ELSE IF r \in triggers_add /\ policy.triggers[r] = S("false") THEN S("true")
        ELSE policy.triggers[r]]

\* The trigger_other nodes after the loop that removes: the first is emptied.
other_after_remove(other, triggers_remove) ==
    IF triggers_remove \ ReservedTriggers # {} THEN [other EXCEPT ![1] = None] ELSE other

\* The trigger_other nodes after the loop that adds: every custom trigger
\* appends a node when the search found none, and writes the first node; last
\* is the custom trigger that the loop visits last.
RECURSIVE appended(_, _)
appended(other, n) == IF n = 0 THEN other ELSE appended(Append(other, None), n - 1)
other_after_add(policy, other, customs, last) ==
    LET grown == IF root_trigger_other(policy) = Absent
                 THEN appended(other, Cardinality(customs))
                 ELSE other
    IN  [grown EXCEPT ![1] = S(last)]

\* The two differences against set(triggers) and the two loops, which
\* _policy_triggers and the policy of _states/jamf.py have in the same
\* words, from the set old of the current triggers on: the possible
\* results, one for each custom trigger that the loop over the set
\* triggers_add may visit last.
triggers_from(policy, triggers, old) ==
    IF triggers = None
    THEN {[policy |-> policy, old |-> None, new |-> None,
           triggers_add |-> {}, triggers_remove |-> {}]}
    ELSE LET triggers_remove == old \ SetOf(triggers)
             triggers_add == SetOf(triggers) \ old
             customs == triggers_add \ ReservedTriggers
             flags == reserved_after(policy, triggers_remove, triggers_add)
             removed == other_after_remove(policy.trigger_other, triggers_remove)
         IN  IF triggers_add = {} /\ triggers_remove = {}
             THEN {[policy |-> policy, old |-> L(<< >>), new |-> L(<< >>),
                    triggers_add |-> triggers_add, triggers_remove |-> triggers_remove]}
             ELSE {[policy |-> [policy EXCEPT !.triggers = flags,
                                              !.trigger_other =
                                                  IF last = "-" THEN removed
                                                  ELSE other_after_add(policy, removed, customs, last)],
                    old |-> ListOfSet(old), new |-> triggers,
                    triggers_add |-> triggers_add, triggers_remove |-> triggers_remove] :
                   last \in IF customs = {} THEN {"-"} ELSE customs}

\* _policy_triggers(policy, triggers): the possible results.
_policy_triggers(policy, triggers) == triggers_from(policy, triggers, old_triggers(policy))

\* _states/jamf.py, policy, # Check Triggers: the reserved triggers whose
\* node holds 'true', and the text of general/trigger_other whenever the
\* node is there.
jamf_old_triggers(pol) ==
    {r \in ReservedTriggers : pol.triggers[r] = S("true")}
        \cup (IF pol.trigger_other # << >> THEN {other_text(pol)[2]} ELSE {})

---------------------------------------------------------------------------
(* _states/jamf_proxy_policy.py: policy.                                   *)

Frequencies == {"Once per computer", "Once per user per computer", "Once per user",
                "Once every day", "Once every week", "Once every month", "Ongoing"}

\* The computer groups and the packages that the server can resolve.
KnownGroups == {"Staff", "Lab Macs"}
KnownPackages == {"Firefox.pkg"}

\* changes['old'][key] = old; changes['new'][key] = new
Record(st, key, old, new) ==
    [st EXCEPT !.changes = [old |-> Put(st.changes.old, key, old),
                            new |-> Put(st.changes.new, key, new)]]

\* # Check Basics
policy_enabled(st, enabled) ==
    IF enabled # B(st.pol.enabled = S("true"))
    THEN Record([st EXCEPT !.pol.enabled = str(enabled)],
                "enabled", B(st.pol.enabled = S("true")), enabled)
    ELSE st
policy_frequency(st, frequency) ==
    IF frequency # st.pol.frequency
    THEN Record([st EXCEPT !.pol.frequency = frequency], "frequency", st.pol.frequency, frequency)
    ELSE st

\* # Check Site: the site element is made when there is none, and the value
\* is compared with, and written to, the child name of general.
policy_site(st, desired) ==
    IF desired # None
    THEN LET e == _ensure_xml_str(st.pol.name, desired)
             made == [st EXCEPT !.pol.site = IF @ = Absent THEN None ELSE @,
                                !.pol.name = e.node]
         IN  IF e.new # None THEN Record(made, "site", e.old, e.new) ELSE made
    ELSE st

\* # Check Category
policy_category(st, desired) ==
    IF desired # None
    THEN LET e == _ensure_xml_str(st.pol.category, desired)
             made == [st EXCEPT !.pol.category = e.node]
         IN  IF e.new # None THEN Record(made, "category", e.old, e.new) ELSE made
    ELSE st

\* # Check Triggers
policy_triggers(st, t) ==
    IF t.new # None /\ Len(t.new[2]) > 0
    THEN Record([st EXCEPT !.pol = t.policy], "triggers", t.old, t.new)
    ELSE [st EXCEPT !.pol = t.policy]

\* scope = [{'all_computers': ac}, {'computer_groups': cg}]; None stands
\* for an item that the list does not have.
Scope(ac, cg) == <<"scope", ac, cg>>
all_computers_of(scope) == scope[2]
computer_groups_of(scope) == scope[3]

\* _policy_scope(policy, scope): the possible results; is_none tells that
\* (None, None) is returned.  A group that the
\* server cannot resolve ends the loop over the set to_add by an exception,
\* after any of the other groups have been added.
scope_all_computers(policy, sv) ==
    IF sv # None /\ policy.all_computers # Absent /\ sv # B(policy.all_computers = S("true"))
    THEN [policy |-> [policy EXCEPT !.all_computers = str(sv)],
          old |-> Put(EmptyDict, "all_computers", B(policy.all_computers = S("true"))),
          new |-> Put(EmptyDict, "all_computers", sv)]
    ELSE [policy |-> policy, old |-> EmptyDict, new |-> EmptyDict]
\* except jss.GetError: raise SaltInvocationError('Invalid computer group
\* "{}" specified in policy: {}'.format(cg, policy.name))
invalid_group_ignored(cg, name) == [raised |-> "", message |-> ""]
invalid_group(cg, name) ==
    [raised |-> "SaltInvocationError",
     message |-> "Invalid computer group \"" \o cg \o "\" specified in policy: " \o name]

\* The groups of to_add are looked up in the order of the set, which any
\* order may be: the groups added before the first one that the server does
\* not have are any of those it has.
_policy_scope(policy, scope) ==
    IF scope = None
    THEN {[policy |-> policy, old |-> EmptyDict, new |-> EmptyDict, is_none |-> TRUE,
           raised |-> "", message |-> ""]}
    ELSE LET ac == scope_all_computers(policy, all_computers_of(scope))
             sv == computer_groups_of(scope)
             existing == policy.computer_groups
             to_add == SetOf(sv) \ existing
         IN  IF sv = None
             THEN {[policy |-> ac.policy, old |-> ac.old, new |-> ac.new, is_none |-> FALSE,
                    raised |-> "", message |-> ""]}
             ELSE IF to_add \subseteq KnownGroups
                  THEN {[policy |-> [ac.policy EXCEPT !.computer_groups = existing \cup to_add],
                         old |-> Put(ac.old, "computer_groups", ListOfSet(existing)),
                         new |-> Put(ac.new, "computer_groups", ListOfSet(to_add)),
                         is_none |-> FALSE, raised |-> "", message |-> ""]}
                  ELSE {[policy |-> [ac.policy EXCEPT !.computer_groups = existing \cup added],
                         old |-> EmptyDict, new |-> EmptyDict, is_none |-> TRUE,
                         raised |-> invalid_group(cg, policy.name[2]).raised,
                         message |-> invalid_group(cg, policy.name[2]).message] :
                        added \in SUBSET (to_add \cap KnownGroups),
                        cg \in to_add \ KnownGroups}

\* # Check Scope
policy_scope(st, sc) ==
    IF ~sc.is_none /\ DOMAIN sc.new # {}
    THEN Record([st EXCEPT !.pol = sc.policy], "scope", sc.old, sc.new)
    ELSE [st EXCEPT !.pol = sc.policy]

\* # Packages: failed names a package to install that the server does not
\* have ("" when there is none); nothing is added after it.
policy_packages(st, packages) ==
    IF packages = None
    THEN [st |-> st, failed |-> FALSE]
    ELSE LET existing_pkgs_install == st.pol.packages
             pkgs_install_add == SetOf(packages) \ existing_pkgs_install
             pkgs_install_remove == existing_pkgs_install \ SetOf(packages)
             reported == Record(st, "packages",
                                Put(EmptyDict, "install", ListOfSet(existing_pkgs_install)),
                                Put(EmptyDict, "install", packages))
         IN  IF pkgs_install_add = {} /\ pkgs_install_remove = {}
             THEN [st |-> st, failed |-> FALSE]
             ELSE IF pkgs_install_add \subseteq KnownPackages
                  THEN [st |-> [reported EXCEPT !.pol.packages =
                                    (existing_pkgs_install \cup pkgs_install_add)
                                        \ pkgs_install_remove],
                        failed |-> FALSE]
                  ELSE [st |-> reported, failed |-> TRUE]

\* _policy_maintenance(policy, [{'update_inventory': v}]) and # Maintenance:
\* the pair of mappings is reported whenever maintenance is given.
policy_maintenance(st, v) ==
    IF v = None
    THEN st
    ELSE IF v # B(st.pol.recon = S("true"))
         THEN Record([st EXCEPT !.pol.recon = str(v)], "maintenance",
                     Put(EmptyDict, "update_inventory", B(st.pol.recon = S("true"))),
                     Put(EmptyDict, "update_inventory", v))
         ELSE Record(st, "maintenance", EmptyDict, EmptyDict)

\* _policy_selfservice(policy, [{'enabled': v}]) and # Self Service
policy_selfservice(st, v) ==
    IF v = None
    THEN st
    ELSE IF v # B(st.pol.use_for_self_service = S("true"))
         THEN Record([st EXCEPT !.pol.use_for_self_service = str(v)], "self_service",
                     Put(EmptyDict, "enabled", B(st.pol.use_for_self_service = S("true"))),
                     Put(EmptyDict, "enabled", v))
         ELSE Record(st, "self_service", EmptyDict, EmptyDict)

\* The end of policy: pol.save(), whatever the changes and __opts__['test'];
\* only jss.PutError is caught.
policy_save(name, st, saveOK, existed) ==
    LET ret0 == InitialRet(name)
    IN  IF saveOK
        THEN Outcome(st.pol, [ret0 EXCEPT !.result = "True", !.changes = st.changes,
                                          !.comment = "Policy Updated Successfully"],
                     1, TRUE, "")
        ELSE IF SaveError(existed) = "PutError"
             THEN Outcome(st.pol, [ret0 EXCEPT !.result = "False",
                                               !.comment = "Unable to update Policy"],
                          1, FALSE, "")
             ELSE Outcome(st.pol, ret0, 1, FALSE, SaveError(existed))

\* policy from # Check Scope on: the possible outcomes.
policy_rest(name, a, saveOK, existed, st2) ==
    { LET st3 == policy_scope(st2, sc)
          pk == policy_packages(st3, a.packages)
          st4 == policy_selfservice(policy_maintenance(pk.st, a.maintenance), a.self_service)
      IN  IF sc.raised # ""
          THEN [rep |-> sc.policy, ret |-> InitialRet(name), saves |-> 0, saved |-> FALSE,
                raised |-> sc.raised, message |-> sc.message]
          ELSE IF pk.failed
               THEN Outcome(pk.st.pol,
                            [InitialRet(name) EXCEPT
                                !.comment = "Package named does not exist."],
                            0, FALSE, "")
               ELSE policy_save(name, st4, saveOK, existed)
      : sc \in _policy_scope(st2.pol, a.scope) }

\* policy(name, frequency, enabled, site, category, triggers, scope,
\* self_service, packages, maintenance): the possible outcomes.
policy_run(name, a, saveOK) ==
    IF a.frequency[2] \notin Frequencies
    THEN {Outcome(Fetch("policy", name), InitialRet(name), 0, FALSE, "SaltInvocationError")}
    ELSE LET existed == srv.policy.exists
             st0 == [pol |-> Fetch("policy", name), changes |-> NoChanges]
             st1 == policy_category(policy_site(policy_frequency(policy_enabled(st0, a.enabled),
                                                                 a.frequency),
                                                a.site),
                                    a.category)
         IN  UNION { policy_rest(name, a, saveOK, existed, policy_triggers(st1, t)) :
                     t \in _policy_triggers(st1.pol, a.triggers) }

\* The arguments of the runs.  A run exercises one part of policy: the
\* other arguments keep their defaults.
PolicyRuns == {"policy:basics", "policy:general", "policy:triggers", "policy:scope",
               "policy:packages", "policy:tasks"}
PolicyDefaults ==
    [frequency |-> S("Ongoing"), enabled |-> B(FALSE), site |-> None, category |-> None,
     triggers |-> None, scope |-> None, packages |-> None, maintenance |-> None,
     self_service |-> None]
PolicyArgs(run) ==
    CASE run = "policy:basics" ->
           {[PolicyDefaults EXCEPT !.frequency = f, !.enabled = e] :
              f \in {S("Ongoing"), S("Once every day"), S("Hourly")}, e \in {B(TRUE), B(FALSE)}}
      [] run = "policy:general" ->
           {[PolicyDefaults EXCEPT !.site = s, !.category = c] :
              s \in {None, S("Sydney")}, c \in {None, S("Apps")}}
      [] run = "policy:triggers" ->
           {[PolicyDefaults EXCEPT !.triggers = t] :
              t \in {None, L(<< >>), L(<<"checkin">>), L(<<"jamf-update">>), L(<<"nightly">>),
                     L(<<"checkin", "jamf-update">>), L(<<"jamf-update", "nightly">>)}}
      [] run = "policy:scope" ->
           {[PolicyDefaults EXCEPT !.scope = sc] :
              sc \in {None} \cup
                     {Scope(ac, cg) :
                        ac \in {None, B(TRUE), B(FALSE)},
                        cg \in {None, L(<< >>), L(<<"Staff">>), L(<<"Staff", "Ghosts">>)}}}
      [] run = "policy:packages" ->
           {[PolicyDefaults EXCEPT !.packages = pk] :
              pk \in {None, L(<< >>), L(<<"Firefox.pkg">>), L(<<"Missing.pkg">>)}}
      [] run = "policy:tasks" ->
           {[PolicyDefaults EXCEPT !.maintenance = m, !.self_service = ss] :
              m \in {None, B(TRUE), B(FALSE)}, ss \in {None, B(TRUE), B(FALSE)}}
      [] OTHER -> {}

\* The trigger_other nodes of a policy grow without bound: the runs stop
\* at MaxTriggerOther nodes.
MaxTriggerOther == 3

policy ==
    \E a \in PolicyArgs(focus), test \in BOOLEAN, saveOK \in BOOLEAN :
        /\ focus \in PolicyRuns
        /\ test => focus = "policy:basics"
        /\ \E r \in policy_run(NameOf("policy"), a, saveOK) :
              /\ Len(r.rep.trigger_other) <= MaxTriggerOther
              /\ Invoke("policy", "policy", a, test, saveOK,
                        IF a.frequency[2] \in Frequencies THEN 1 ELSE 0, r)

\* _policy_triggers applied to a policy representation, by itself: the
\* representations and the desired lists are drawn from bounded sets.
MaxTriggers == 3
TriggerNames == {"checkin", "login", "jamf-update", "nightly"}
RECURSIVE ListsUpTo(_)
ListsUpTo(n) ==
    IF n = 0 THEN {<< >>}
    ELSE ListsUpTo(n - 1) \cup {Append(l, x) : l \in {m \in ListsUpTo(n - 1) : Len(m) = n - 1},
                                               x \in TriggerNames}
TriggerLists == {None} \cup {L(l) : l \in ListsUpTo(MaxTriggers)}
TriggerPolicies ==
    {[BlankPolicy("Update") EXCEPT
         !.triggers = [r \in ReservedTriggers |->
                          IF r = "checkin" THEN c ELSE IF r = "login" THEN l ELSE S("false")],
         !.trigger_other = o] :
     c \in {Absent, None, S("true"), S("false")},
     l \in {Absent, S("true"), S("false")},
     o \in {<< >>, <<None>>, <<S("")>>, <<S("jamf-update")>>}}

apply_policy_triggers ==
    \E triggers \in TriggerLists :
        /\ focus = "_policy_triggers"
        /\ call.op = "none"
        /\ \E t \in _policy_triggers(srv.policy.el, triggers) :
              call' = [op |-> "_policy_triggers", kind |-> "policy",
                       args |-> [triggers |-> triggers],
                       pre |-> srv.policy.el, rep |-> t.policy,
                       ret |-> [old |-> t.old, new |-> t.new],
                       triggers_add |-> t.triggers_add,
                       triggers_remove |-> t.triggers_remove]
        /\ UNCHANGED <<srv, focus, GRAINS_CACHE, DETAILS>>

\* The block # Check Triggers of the policy of _states/jamf.py applied to a
\* policy representation, by itself; nothing else in that function reads or
\* writes the trigger nodes.
jamf_policy_triggers ==
    \E triggers \in TriggerLists :
        /\ focus = "_policy_triggers"
        /\ call.op = "none"
        /\ \E t \in triggers_from(srv.policy.el, triggers, jamf_old_triggers(srv.policy.el)) :
              call' = [op |-> "jamf_policy_triggers", kind |-> "policy",
                       args |-> [triggers |-> triggers],
                       pre |-> srv.policy.el, rep |-> t.policy,
                       ret |-> [old |-> t.old, new |-> t.new],
                       triggers_add |-> t.triggers_add,
                       triggers_remove |-> t.triggers_remove]
        /\ UNCHANGED <<srv, focus, GRAINS_CACHE, DETAILS>>

---------------------------------------------------------------------------
(* _states/jamf_proxy.py: script, and _modules/jamf.py: manage_script.     *)

\* The files of the master, by their source, and what they hold.
SourceFiles == {"salt://scripts/setup.sh"}
FileStr(source) == "echo setup"

\* A digest of a text, by its hash type.
Digest(hash_type, text) == <<hash_type, text>>

\* if source and contents is not None:
both_given(source, contents) == truthy(source) /\ contents # None

\* ret = {'name': name, 'result': False, 'changes': {'old': {}, 'new': {}},
\*        'comment': ''}
ScriptRet(name) ==
    [name |-> name, result |-> "False",
     changes |-> [old |-> EmptyDict, new |-> EmptyDict], comment |-> ""]

\* The outcome of script: files lists the calls of the file modules of salt,
\* fetches counts the requests for the script.
ScriptOutcome(rep, ret, saves, saved, raised, fetches, files) ==
    [rep |-> rep, ret |-> ret, saves |-> saves, saved |-> saved, raised |-> raised,
     fetches |-> fetches, files |-> files]

\* script.add_script(contents); script.save() at the end of a branch of
\* manage_script whose save is not guarded.
script_save(name, script, ret, saveOK, existed, files) ==
    IF saveOK
    THEN ScriptOutcome(script, ret, 1, TRUE, "", 1, files)
    ELSE ScriptOutcome(script, ScriptRet(name), 1, FALSE, SaveError(existed), 1, files)

\* ret['changes']['diff'] = diff, and the comment of an existing script:
\* the mapping changes that script hands over is never empty.
with_diff(ret, diff) ==
    [ret EXCEPT !.changes = [old |-> @.old, new |-> @.new, diff |-> S(diff)]]
updated(name, ret) == [ret EXCEPT !.comment = "Script " \o name \o " updated"]

\* manage_script(name, sfn, ret, source, source_sum, saltenv, contents):
\* the possible outcomes.  sfn is '' when it comes in, source_sum is {}
\* unless the file is cached here.
manage_script(name, ret, source, contents, hash_type, saveOK, files0) ==
    LET cache == truthy(source)
        found == cache /\ source[2] \in SourceFiles
        sfn == IF found THEN source ELSE S("")
        files1 == IF cache
                  THEN IF found THEN files0 \o <<"cp.cache_file", "file.get_hash">>
                       ELSE files0 \o <<"cp.cache_file">>
                  ELSE files0
        hsum == IF found THEN Digest(hash_type, FileStr(source[2]))
                ELSE <<hash_type>>       \* source_sum.get('hsum', __opts__['hash_type'])
        existed == srv.script.exists
        script == Fetch("script", name)
        name_contents == script.script_contents
        name_sum == IF name_contents = None THEN None
                    ELSE Digest("sha256", name_contents[2])
        read == files1 \o <<"cp.get_file_str">>
    IN  IF cache /\ ~found
        THEN {ScriptOutcome(script, ScriptRet(name), 0, FALSE, "CommandExecutionError", 0, files1)}
        ELSE IF existed
        THEN IF source # None
             THEN IF name_sum = None \/ hsum # name_sum
                  THEN IF found
                       THEN LET rep == [script EXCEPT !.script_contents = S(FileStr(source[2]))]
                            IN  IF saveOK
                                THEN {ScriptOutcome(rep, updated(name, with_diff(ret, "diff")),
                                                    1, TRUE, "", 1, read)}
                                ELSE {ScriptOutcome(rep, ScriptRet(name), 1, FALSE,
                                                    "CommandExecutionError", 1, read)}
                       ELSE \* there is no file to read: the try block fails,
                            \* before the save or in it
                            {ScriptOutcome(script, ScriptRet(name), n, FALSE,
                                           "CommandExecutionError", 1, read) : n \in {0, 1}}
                  ELSE {ScriptOutcome(script, updated(name, ret), 0, FALSE, "", 1, files1)}
             ELSE IF contents # None
                  THEN {script_save(name, [script EXCEPT !.script_contents = contents],
                                    updated(name, with_diff(ret, "diff")), saveOK, existed, files1)}
                  ELSE {ScriptOutcome(script, updated(name, ret), 0, FALSE, "", 1, files1)}
        ELSE IF source # None
             THEN IF found
                  THEN {script_save(name, [script EXCEPT !.script_contents = S(FileStr(source[2]))],
                                    with_diff(ret, "New script"), saveOK, existed, read)}
                  ELSE {ScriptOutcome(script, ScriptRet(name), n, FALSE,
                                      "CommandExecutionError", 1, read) : n \in {0, 1}}
             ELSE IF contents = None
                  THEN {script_save(name, script,
                                    [ret EXCEPT !.changes.new = S("Script " \o name \o " created"),
                                                !.comment = "Empty script"],
                                    saveOK, existed, files1)}
                  ELSE {script_save(name, [script EXCEPT !.script_contents = contents],
                                    with_diff(ret, "New script"), saveOK, existed, files1)}

ScriptPriorities == {"After", "Before", "At Reboot"}

\* script(name, source, contents, priority): the possible outcomes.
script_run(name, a, hash_type, saveOK) ==
    LET ret == ScriptRet(name)
        unfetched == Fetch("script", name)
    IN  IF both_given(a.source, a.contents)
        THEN {ScriptOutcome(unfetched, ret, 0, FALSE, "SaltInvocationError", 0, << >>)}
        ELSE IF a.priority # None /\ a.priority[2] \notin ScriptPriorities
        THEN {ScriptOutcome(unfetched, ret, 0, FALSE, "SaltInvocationError", 0, << >>)}
        ELSE IF a.source # None
        THEN manage_script(name, ret, a.source, None, hash_type, saveOK,
                           <<"file.source_list", "file.get_managed">>)
        ELSE IF a.contents # None
        THEN manage_script(name, ret, None, a.contents, hash_type, saveOK, << >>)
        ELSE {ScriptOutcome(unfetched, ret, 0, FALSE, "", 0, << >>)}

ScriptArgs ==
    {[source |-> s, contents |-> c, priority |-> p] :
        s \in {None, S(""), S("salt://scripts/setup.sh"), S("salt://scripts/gone.sh")},
        c \in {None, S("echo setup"), S("echo hello")},
        p \in {None, S("Never")}}

script ==
    \E a \in ScriptArgs, hash_type \in {"sha256", "md5"}, saveOK \in BOOLEAN :
        /\ focus = "script"
        /\ \E r \in script_run(NameOf("script"), a, hash_type, saveOK) :
              Invoke("script", "script",
                     [source |-> a.source, contents |-> a.contents, priority |-> a.priority,
                      hash_type |-> hash_type],
                     FALSE, saveOK, r.fetches, r)

---------------------------------------------------------------------------
(* _modules/jamf_org.py, _modules/jamf_dp.py, _modules/jamf.py: the        *)
(* functions that look an object up.                                       *)

LookupKinds == {"category", "network_segment", "distribution_point", "script"}

\* The id of the object of a run, when the server has it.
IdOf(kind) == I(1)

\* j.Category(name), j.Category(int(id)): whether the server finds it.
Found(kind, key) ==
    srv[kind].exists /\ key \in {S(NameOf(kind)), IdOf(kind)}

\* if id is None and name is None:
neither_given(name, id) == id = None /\ name = None

\* The error that leaves a lookup whose object the server does not have.
\* network_segment returns None; script names an exception class that only
\* some releases of the client library have.
NotFound(kind) ==
    CASE kind = "network_segment" -> {""}
      [] kind = "script" -> {"CommandExecutionError", "GetError"}
      [] OTHER -> {"CommandExecutionError"}

\* category(name, id), network_segment(name, id), distribution_point(name,
\* id), script(name, id): by is what the request is made by, result the
\* object returned ("" when none is).
lookup_run(kind, name, id) ==
    LET by == IF kind = "script" \/ name # None THEN name ELSE id
    IN  IF ~neither_given(name, id)
        THEN IF by = None
             THEN {[raised |-> "", fetches |-> 1, by |-> by, result |-> "list"]}
             ELSE IF Found(kind, by)
                  THEN {[raised |-> "", fetches |-> 1, by |-> by, result |-> NameOf(kind)]}
                  ELSE {[raised |-> e, fetches |-> 1, by |-> by, result |-> ""] :
                        e \in NotFound(kind)}
        ELSE {[raised |-> "SaltInvocationError", fetches |-> 0, by |-> None, result |-> ""]}

lookup ==
    \E kind \in LookupKinds \cap {focus} :
        \E name \in {None, S(NameOf(kind))}, id \in {None, I(1), I(2)} :
            /\ \E r \in lookup_run(kind, name, id) :
                  call' = [op |-> "lookup", kind |-> kind, args |-> [name |-> name, id |-> id],
                           fetches |-> r.fetches, by |-> r.by, raised |-> r.raised,
                           result |-> r.result, saves |-> 0]
            /\ UNCHANGED <<srv, focus, GRAINS_CACHE, DETAILS>>

---------------------------------------------------------------------------
(* _states/jamf_proxy_auth.py: sso_settings.                               *)

ProviderTypes == {"ADFS", "OKTA", "GOOGLE", "SHIBBOLETH", "ONELOGIN", "PING", "CENTRIFY"}

\* name.upper(), for the names of the runs.
upper(name) == IF name = "Okta" THEN "OKTA" ELSE name

\* use_for = ['enrollment', 'jss', 'self_service']: the assignment replaces
\* the argument of the caller.
sso_use_for(caller) == {"enrollment", "jss", "self_service"}

\* The flag of a service, and the services in the order the code visits them.
ServiceFlag(service) ==
    CASE service = "jss" -> "isEnabledJss"
      [] service = "enrollment" -> "isEnabledEnrollment"
      [] service = "self_service" -> "isEnabledOsx"
ServiceOrder == <<"jss", "enrollment", "self_service">>

\* The services appended to changes['new']['use_for'] (on TRUE) or to
\* changes['old']['use_for'] (on FALSE), and the flags afterwards.
use_for_list(sso, use_for, on) ==
    IF "jss" \notin use_for
    THEN IF ~on /\ sso.isEnabledJss THEN <<"jss">> ELSE << >>
    ELSE SelectSeq(ServiceOrder,
                   LAMBDA x : IF on THEN x \in use_for /\ ~sso[ServiceFlag(x)]
                              ELSE x # "jss" /\ x \notin use_for /\ sso[ServiceFlag(x)])
use_for_flags(sso, use_for) ==
    IF "jss" \notin use_for
    THEN [sso EXCEPT !.isEnabledJss = FALSE]
    ELSE [sso EXCEPT !.isEnabledJss = TRUE,
                     !.isEnabledEnrollment = "enrollment" \in use_for,
                     !.isEnabledOsx = "self_service" \in use_for]

\* sso_settings(name, entity_id, use_for, user_attribute_name, allow_bypass):
\* returns tells what the function returns, the mapping ret or nothing (None).
sso_settings_run(a, test, saveOK) ==
    LET use_for == sso_use_for(SetOf(a.use_for))
        sso0 == Fetch("sso_settings", "SSO")
        provider_type == IF upper(a.name) \in ProviderTypes THEN upper(a.name) ELSE "OTHER"
        st0 == [pol |-> sso0, changes |-> NoChanges]
        st1 == IF sso0.idpProviderType # provider_type
               THEN Record([st0 EXCEPT !.pol.idpProviderType = provider_type,
                                       !.pol.otherProviderTypeName =
                                           IF provider_type = "OTHER" THEN a.name ELSE @],
                           "name", S(sso0.idpProviderType),
                           S(IF provider_type = "OTHER" THEN a.name ELSE provider_type))
               ELSE st0
        st2 == Record([st1 EXCEPT !.pol = use_for_flags(st1.pol, use_for)], "use_for",
                      L(use_for_list(sso0, use_for, FALSE)), L(use_for_list(sso0, use_for, TRUE)))
        st3 == IF S(sso0.entityID) # a.entity_id
               THEN Record([st2 EXCEPT !.pol.entityID = a.entity_id[2]],
                           "entity_id", S(sso0.entityID), a.entity_id)
               ELSE st2
        st4 == IF a.allow_bypass # None
               THEN [st3 EXCEPT !.pol.isEnabledBypass = (a.allow_bypass = S("true"))]
               ELSE st3
        st5 == IF a.user_attribute_name = None THEN st4
               ELSE IF ~sso0.isUserAttributeEnabled
               THEN Record([st4 EXCEPT !.pol.isUserAttributeEnabled = TRUE,
                                       !.pol.userAttributeName = a.user_attribute_name],
                           "user_attribute_name", None, a.user_attribute_name)
               ELSE IF sso0.userAttributeName # a.user_attribute_name
               THEN Record([st4 EXCEPT !.pol.userAttributeName = a.user_attribute_name],
                           "user_attribute_name", sso0.userAttributeName, a.user_attribute_name)
               ELSE st4
        ret0 == InitialRet(a.name)
    IN  IF use_for # {} /\ "jss" \notin use_for
        THEN [rep |-> sso0, ret |-> ret0, saves |-> 0, saved |-> FALSE,
              raised |-> "SaltInvocationError", returns |-> "None", fetches |-> 0]
        ELSE IF test
        THEN [rep |-> st5.pol,
              ret |-> [ret0 EXCEPT !.result = "None",
                                   !.comment = "The state of SSO Settings will be changed."],
              pchanges |-> st5.changes,
              saves |-> 0, saved |-> FALSE, raised |-> "", returns |-> "ret", fetches |-> 1]
        ELSE IF saveOK
        THEN [rep |-> st5.pol,
              ret |-> [ret0 EXCEPT
                          !.result = "True",
                          !.changes = IF Len0(st5.changes.new) > 0 THEN st5.changes ELSE @,
                          !.comment = IF Len0(st5.changes.new) > 0
                                      THEN "SSO Settings have been updated"
                                      ELSE "SSO Settings are in the correct state"],
              saves |-> 1, saved |-> TRUE, raised |-> "", returns |-> "None", fetches |-> 1]
        ELSE [rep |-> st5.pol, ret |-> ret0, saves |-> 1, saved |-> FALSE,
              raised |-> SaveError(TRUE), returns |-> "None", fetches |-> 1]

SSOArgs ==
    {[name |-> n, entity_id |-> S("https://jss.example.com/saml"), use_for |-> u,
      user_attribute_name |-> ua, allow_bypass |-> ab] :
        n \in {"Okta", "Corp IdP"},
        u \in {L(<< >>), L(<<"jss">>), L(<<"enrollment">>), L(<<"jss", "self_service">>)},
        ua \in {None, S("uid")},
        ab \in {None, S("true")}}

sso_settings ==
    \E a \in SSOArgs, test \in BOOLEAN, saveOK \in BOOLEAN :
        /\ focus = "sso_settings"
        /\ LET r == sso_settings_run(a, test, saveOK)
           IN  Invoke("sso_settings", "sso_settings", a, test, saveOK, r.fetches, r)

---------------------------------------------------------------------------
(* _states/jamf_proxy.py: package.                                         *)

PackageFields == {"category", "filename", "info", "notes"}

\* package: a field that is given and differs from the stored text is
\* replaced and recorded; the package is then saved whether or not anything
\* differs, and both jss.PostError and jss.PutError are caught.
package_run(name, a, saveOK) ==
    LET existed == srv.package.exists
        pkg == Fetch("package", name)
        differs == {f \in PackageFields : a[f] # None /\ a[f] # pkg[f]}
        rep == [f \in DOMAIN pkg |-> IF f \in differs THEN a[f] ELSE pkg[f]]
        ret0 == [InitialRet(name) EXCEPT
                    !.changes = [old |-> [f \in differs |-> pkg[f]],
                                 new |-> [f \in differs |-> a[f]]]]
    IN  IF saveOK
        THEN Outcome(rep, [ret0 EXCEPT !.result = "True",
                                       !.comment = "Package updated successfully."],
                     1, TRUE, "")
        ELSE Outcome(rep, [ret0 EXCEPT !.comment =
                              (IF existed THEN "Failed to update Package: "
                                          ELSE "Failed to save Package: ") \o ServerMessage],
                     1, FALSE, "")

package ==
    \E a \in [PackageFields -> {None, S("Browsers")}], saveOK \in BOOLEAN :
        /\ focus = "package"
        /\ a.notes = None
        /\ Invoke("package", "package", a, FALSE, saveOK, 1,
                  package_run(NameOf("package"), a, saveOK))

---------------------------------------------------------------------------
(* _states/jamf.py: script, and _modules/jamf_scripts.py: manage_script.   *)

\* manage_script(name, sfn, ret, source, source_sum, saltenv, contents,
\* parameters) of jamf_scripts.py, called without info, notes,
\* os_requirements, category and priority: the possible outcomes.  With a
\* parameters list, a node beyond the list is emptied and entered in the
\* changes whatever it held; a node of the list is, when its text differs.  The try block of an
\* existing script raises before the save when the stored script has no
\* contents to diff (unified_diff of None); its bare except turns every
\* exception into CommandExecutionError.
jamf_scripts_manage_script(name, ret0, source, contents, parameters, hash_type, saveOK, files0) ==
    LET cache == truthy(source)
        found == cache /\ source[2] \in SourceFiles
        files1 == IF cache
                  THEN IF found THEN files0 \o <<"cp.cache_file", "file.get_hash">>
                       ELSE files0 \o <<"cp.cache_file">>
                  ELSE files0
        hsum == IF found THEN Digest(hash_type, FileStr(source[2])) ELSE <<hash_type>>
        is_new == ~srv.script.exists
        fetched == Fetch("script", name)
        beyond(n) == n - 4 > Len(parameters[2]) - 1
        wanted(n) == IF beyond(n) THEN None ELSE S(parameters[2][n - 3])
        text(n) == IF fetched.parameters[n] = Absent THEN None ELSE fetched.parameters[n]
        entered == IF parameters = None THEN {}
                   ELSE {n \in ParameterNumbers : beyond(n) \/ text(n) # wanted(n)}
        keys == {"parameter" \o ToString(n) : n \in entered}
        number(k) == CHOOSE n \in entered : k = "parameter" \o ToString(n)
        el == IF parameters = None THEN fetched
              ELSE [fetched EXCEPT !.parameters = [n \in ParameterNumbers |-> wanted(n)]]
        ret == [ret0 EXCEPT !.changes.old = [k \in keys |-> text(number(k))],
                            !.changes.new = [k \in keys |-> wanted(number(k))]]
        name_contents == el.script_contents
        name_sum == IF name_contents = None THEN None
                    ELSE Digest("sha256", name_contents[2])
        read == files1 \o <<"cp.get_file_str">>
        done(r, diff) == [with_diff(r, diff) EXCEPT !.result = "True"]
        raises(n, files) ==
            ScriptOutcome(el, ScriptRet(name), n, FALSE, "CommandExecutionError", 1, files)
    IN  IF cache /\ ~found
        THEN {ScriptOutcome(fetched, ScriptRet(name), 0, FALSE, "CommandExecutionError", 0,
                            files1)}
        ELSE IF ~is_new
        THEN IF source # None
             THEN IF name_sum = None \/ hsum # name_sum
                  THEN IF found /\ name_contents # None
                       THEN LET rep == [el EXCEPT !.script_contents = S(FileStr(source[2]))]
                            IN  IF saveOK
                                THEN {ScriptOutcome(rep, updated(name, done(ret, "diff")),
                                                    1, TRUE, "", 1, read)}
                                ELSE {raises(1, read)}
                       ELSE {raises(0, read)}
                  ELSE {ScriptOutcome(el, updated(name, ret), 0, FALSE, "", 1, files1)}
             ELSE IF contents # None
                  THEN {script_save(name, [el EXCEPT !.script_contents = contents],
                                    updated(name, done(ret, "diff")), saveOK, TRUE, files1)}
                  ELSE {ScriptOutcome(el, updated(name, ret), 0, FALSE, "", 1, files1)}
        ELSE IF source # None
             THEN IF found
                  THEN {script_save(name, [el EXCEPT !.script_contents = S(FileStr(source[2]))],
                                    done(ret, "New script"), saveOK, FALSE, read)}
                  ELSE {raises(n, read) : n \in {0, 1}}
             ELSE IF contents = None
                  THEN {script_save(name, el,
                                    [ret EXCEPT !.changes.new = S("Script " \o name \o " created"),
                                                !.comment = "Empty script", !.result = "True"],
                                    saveOK, FALSE, files1)}
                  ELSE {script_save(name, [el EXCEPT !.script_contents = contents],
                                    done(ret, "New script"), saveOK, FALSE, files1)}

\* script(name, source, contents, priority) of _states/jamf.py, the state of
\* a minion that is no proxy.
jamf_script ==
    \E a \in ScriptArgs, hash_type \in {"sha256", "md5"}, saveOK \in BOOLEAN,
       parameters \in {None, L(<< >>), L(<<"/Applications">>)} :
        /\ focus = "script"
        /\ LET name == NameOf("script")
               ret == ScriptRet(name)
               unfetched == Fetch("script", name)
               refused == {ScriptOutcome(unfetched, ret, 0, FALSE, "SaltInvocationError", 0, << >>)}
               rs == IF both_given(a.source, a.contents) THEN refused
                     ELSE IF a.priority # None /\ a.priority[2] \notin ScriptPriorities
                     THEN refused
                     ELSE IF a.source # None
                     THEN jamf_scripts_manage_script(name, ret, a.source, None, parameters,
                                                     hash_type, saveOK,
                                                     <<"file.source_list", "file.get_managed">>)
                     ELSE IF a.contents # None
                     THEN jamf_scripts_manage_script(name, ret, None, a.contents, parameters,
                                                     hash_type, saveOK, << >>)
                     ELSE {ScriptOutcome(unfetched, ret, 0, FALSE, "", 0, << >>)}
           IN  \E r \in rs :
                  Invoke("jamf_script", "script",
                         [source |-> a.source, contents |-> a.contents, priority |-> a.priority,
                          hash_type |-> hash_type, parameters |-> parameters],
                         FALSE, saveOK, r.fetches, r)

---------------------------------------------------------------------------
(* _states/jamf_proxy_auth.py: ldap_server (the same text is in            *)
(* _states/jamf_system.py).                                                *)

\* A mapping as a value, so that a variable may hold a mapping or a text.
D(mapping) == <<"dict", mapping>>

\* The fields of the connection node that the runs use; Absent as the value
\* of an optional argument tells that it is not among the keyword arguments.
LDAPRequired == {"hostname", "port", "server_type", "authentication_type"}

\* ldap_server(name, hostname, port, server_type, authentication_type,
\* **kwargs).  The required fields are written and entered in
\* changes['new'] whatever they were; an optional field that differs
\* replaces both changes['old'] (by the text of the connection node, which
\* has none) and changes['new'] (by its value); the save is not guarded.
ldap_server_run(name, a, saveOK) ==
    LET existed == srv.ldap_server.exists
        connection_el == Fetch("ldap_server", name)
        required_values == [p \in LDAPRequired |-> IF p = "port" THEN str(a[p]) ELSE a[p]]
        kwargs == [p \in {"search_timeout", "connection_is_used_for"} |->
                      IF p = "connection_is_used_for" THEN S("users") ELSE a[p]]
        differing == {p \in DOMAIN kwargs : kwargs[p] # Absent /\ connection_el[p] # kwargs[p]}
        last == IF "connection_is_used_for" \in differing THEN "connection_is_used_for"
                ELSE "search_timeout"
        rep == [p \in DOMAIN connection_el |->
                   IF p \in LDAPRequired THEN required_values[p]
                   ELSE IF p \in differing THEN kwargs[p] ELSE connection_el[p]]
        changes == IF differing = {}
                   THEN [old |-> D(EmptyDict), new |-> D(required_values)]
                   ELSE [old |-> None, new |-> kwargs[last]]
    IN  IF saveOK
        THEN Outcome(rep, [InitialRet(name) EXCEPT !.changes = changes, !.result = "True"],
                     1, TRUE, "")
        ELSE Outcome(rep, InitialRet(name), 1, FALSE, SaveError(existed))

ldap_server ==
    \E port \in {I(389), I(636)}, search_timeout \in {Absent, S("30"), S("60")},
       saveOK \in BOOLEAN :
        /\ focus = "ldap_server"
        /\ LET a == [hostname |-> S("ldap.example.com"), port |-> port,
                     server_type |-> S("Active Directory"),
                     authentication_type |-> S("none"), search_timeout |-> search_timeout]
           IN  Invoke("ldap_server", "ldap_server", a, FALSE, saveOK, 1,
                      ldap_server_run(NameOf("ldap_server"), a, saveOK))

---------------------------------------------------------------------------
(* _states/jamf_proxy.py: smart_computer_group (_states/jamf.py has the    *)
(* same function).                                                         *)

\* The criteria lists of the runs: each entry is a mapping with one field,
\* whose definition has one search type.
MaxCriteria == 2
CriteriaLists ==
    UNION {[1..n -> {[name |-> "Application Title", type |-> "is", value |-> "AppCode.app"],
                     [name |-> "Application Version", type |-> "is_not", value |-> "2017.1.2"],
                     [name |-> "Application Title", type |-> "like", value |-> "App"]}] :
           n \in 0..MaxCriteria}

\* smart_computer_group(name, criteria).  A group that the server has is
\* left alone.  For a new group every entry adds a criterion node; the list
\* changes['new']['criteria'] is set to [] at every entry of criteria, and
\* the branch of 'like' reads definition['is_not'], a KeyError.  The save is
\* not guarded.
smart_computer_group_run(name, criteria, saveOK) ==
    LET grp == Fetch("smart_computer_group", name)
        ret0 == [InitialRet(name) EXCEPT !.changes = [old |-> EmptyDict, new |-> EmptyDict]]
        n == Len(criteria)
        search_type(cri) == IF cri.type = "is_not" THEN "is not" ELSE cri.type
        new_change(i) ==
            [name |-> S(criteria[i].name), priority |-> S(ToString(i - 1)), and_or |-> S("and"),
             search_type |-> S(search_type(criteria[i])), value |-> S(criteria[i].value)]
        rep == [name |-> S(name), is_smart |-> S("true"),
                criteria |-> [i \in 1..n |-> new_change(i)]]
        ret == [ret0 EXCEPT !.result = "True",
                            !.changes.new = IF n = 0 THEN EmptyDict
                                            ELSE Put(EmptyDict, "criteria", L(<<new_change(n)>>))]
    IN  IF srv.smart_computer_group.exists
        THEN Outcome(grp, [ret0 EXCEPT !.result = "True", !.changes = EmptyDict,
                                       !.comment = "Computer Smart Group already exists"],
                     0, FALSE, "")
        ELSE IF \E i \in 1..n : criteria[i].type = "like"
        THEN Outcome(grp, ret0, 0, FALSE, "KeyError")
        ELSE IF saveOK THEN Outcome(rep, ret, 1, TRUE, "")
        ELSE Outcome(rep, ret0, 1, FALSE, SaveError(FALSE))

smart_computer_group ==
    \E criteria \in CriteriaLists, saveOK \in BOOLEAN :
        /\ focus = "smart_computer_group"
        /\ Invoke("smart_computer_group", "smart_computer_group", [criteria |-> criteria],
                  FALSE, saveOK, 1,
                  smart_computer_group_run(NameOf("smart_computer_group"), criteria, saveOK))

---------------------------------------------------------------------------
(* _modules/jamf_local_profiles.py: manage_mac_profile.                    *)

\* manage_mac_profile(name, sfn, ret, source, source_sum, saltenv,
\* category=wanted, ...) with the defaults of distribution_method,
\* user_removable and level.  A payload is the set of its PayloadUUIDs;
\* source is None or the payload of the source file.  For a profile that
\* exists the payload is replaced when the file has a PayloadUUID that the
\* stored payload has not, and the change is then entered under
\* ret['changes']['diff'], a key that ret['changes'] does not have
\* (KeyError); the save is not guarded.
manage_mac_profile_run(name, wanted, source, saveOK) ==
    LET is_new == ~srv.mac_configuration_profile.exists
        profile == IF is_new
                   THEN [name |-> S(name), category |-> Absent, distribution_method |-> Absent,
                         user_removable |-> Absent, level |-> Absent, payloads |-> Absent]
                   ELSE srv.mac_configuration_profile.el
        desired == [category |-> wanted, distribution_method |-> S("Install Automatically"),
                    user_removable |-> S("true"), level |-> S("computer")]
        differing == {f \in DOMAIN desired : profile[f] # desired[f]}
        basics == [f \in DOMAIN profile |-> IF f \in differing THEN desired[f] ELSE profile[f]]
        old == [f \in differing |-> IF profile[f] = Absent THEN None ELSE profile[f]]
        new == [f \in differing |-> desired[f]]
        compare == ~is_new /\ findtext(profile.payloads) # None /\ source # None
        different_uuids == IF compare THEN source[2] \ profile.payloads[2] ELSE {}
        rep == IF different_uuids # {} \/ (is_new /\ source # None)
               THEN [basics EXCEPT !.payloads = source]
               ELSE basics
        changes0 == IF is_new /\ source # None THEN Put(EmptyDict, "diff", S("New payload"))
                    ELSE EmptyDict
        changes1 == IF DOMAIN old # {} THEN Put(changes0, "old", D(old)) ELSE changes0
        changes == IF DOMAIN new # {} THEN Put(changes1, "new", D(new)) ELSE changes1
        ret == [name |-> name, changes |-> changes,
                result |-> IF DOMAIN new # {} THEN "True" ELSE "None",
                comment |-> IF compare THEN "Payload identical"
                            ELSE IF is_new /\ source = None THEN "Empty payload" ELSE ""]
    IN  IF different_uuids # {}
        THEN Outcome(rep, InitialRet(name), 0, FALSE, "KeyError")
        ELSE IF saveOK THEN Outcome(rep, ret, 1, TRUE, "")
        ELSE Outcome(rep, InitialRet(name), 1, FALSE, SaveError(~is_new))

manage_mac_profile ==
    \E wanted \in {S("Apps"), S("Security")},
       source \in {None} \cup {<<"plist", u>> : u \in (SUBSET {"uuid-1", "uuid-2"}) \ {{}}},
       saveOK \in BOOLEAN :
        /\ focus = "mac_configuration_profile"
        /\ Invoke("manage_mac_profile", "mac_configuration_profile",
                  [category |-> wanted, source |-> source], FALSE, saveOK, 1,
                  manage_mac_profile_run(NameOf("mac_configuration_profile"), wanted,
                                         source, saveOK))

---------------------------------------------------------------------------
(* The runs.                                                               *)

\* The runs, and the kind of object that each manages.
Runs == (Kinds \ {"policy"}) \cup PolicyRuns
KindOf(run) == IF run \in PolicyRuns THEN "policy" ELSE run

\* A policy as the server answers it: every flag is present, the custom
\* trigger node is present and empty, and the policy belongs to no site.
ServerPolicy(name) ==
    [name |-> S(name), enabled |-> S("false"), frequency |-> S("Ongoing"),
     site |-> S("None"), category |-> S("No category assigned"),
     triggers |-> [r \in ReservedTriggers |-> S("false")], trigger_other |-> <<None>>,
     all_computers |-> S("false"), computer_groups |-> {}, packages |-> {},
     recon |-> S("false"), use_for_self_service |-> S("false")]

\* The object of the run's kind as the server holds it at first: none, or
\* one that an administrator created.
InitialObjects(run) ==
    CASE run = "category" -> {[name |-> S(NameOf(run)), priority |-> S("9")]}
      [] run = "building" -> {BlankBuilding(NameOf(run))}
      [] run = "site" -> {BlankSite(NameOf(run))}
      [] run = "network_segment" ->
           {[name |-> S(NameOf(run)), starting_address |-> S("10.0.0.1"),
             ending_address |-> S("10.0.0.9"), distribution_point |-> d] : d \in {Absent, None}}
      [] run = "distribution_point" ->
           {[f \in DPFields \cup {"name"} |->
               IF f = "name" THEN S(NameOf(run))
               ELSE IF f = "is_master" THEN S("false")
               ELSE IF f = "connection_type" THEN S("SMB")
               ELSE DPValue(f)]}
      [] run = "inventory_collection" ->
           {[n \in InventoryNodes |-> t] : t \in {S("true"), S("false")}}
      [] run = "policy:triggers" ->
           {[ServerPolicy(NameOf("policy")) EXCEPT !.triggers["checkin"] = c,
                                                    !.trigger_other = o] :
              c \in {S("true"), S("false")}, o \in {<<None>>, <<S("jamf-update")>>}}
      [] run = "policy:scope" ->
           {[ServerPolicy(NameOf("policy")) EXCEPT !.computer_groups = g] :
              g \in {{}, {"Lab Macs"}}}
      [] run = "policy:packages" ->
           {[ServerPolicy(NameOf("policy")) EXCEPT !.packages = g] :
              g \in {{}, {"Firefox.pkg"}, {"Chrome.pkg"}}}
      [] run = "sso_settings" ->
           {[idpProviderType |-> "OKTA", otherProviderTypeName |-> "", isEnabledJss |-> j,
             isEnabledEnrollment |-> e, isEnabledOsx |-> FALSE,
             entityID |-> "https://jss.example.com/saml", isEnabledBypass |-> FALSE,
             isUserAttributeEnabled |-> FALSE, userAttributeName |-> S("")] :
              j \in BOOLEAN, e \in BOOLEAN}
      [] run = "ldap_server" ->
           {[name |-> S(NameOf(run)), hostname |-> S("ldap.example.com"), port |-> S("389"),
             server_type |-> S("Active Directory"), authentication_type |-> S("none"),
             search_timeout |-> S("30"), connection_is_used_for |-> u] :
              u \in {S("users"), Absent}}
      [] run = "smart_computer_group" ->
           {[name |-> S(NameOf(run)), is_smart |-> S("true"), criteria |-> << >>]}
      [] run = "mac_configuration_profile" ->
           {[name |-> S(NameOf(run)), category |-> S("Apps"),
             distribution_method |-> S("Install Automatically"), user_removable |-> S("true"),
             level |-> S("computer"), payloads |-> <<"plist", u>>] :
              u \in {{"uuid-1"}, {"uuid-1", "uuid-2"}}}
      [] run = "package" ->
           {[BlankPackage(NameOf(run)) EXCEPT !.category = c] :
              c \in {S("Browsers"), S("Unknown")}}
      [] run = "script" ->
           {[BlankScript(NameOf(run)) EXCEPT !.script_contents = c] :
              c \in {None, S("echo setup"), S("echo old")}}
      [] OTHER -> {ServerPolicy(NameOf("policy"))}

NoObject(kind) == [exists |-> FALSE, el |-> Blank(kind, NameOf(kind))]

\* The settings objects are part of every server.
Singletons == {"inventory_collection", "sso_settings"}

\* What the server holds of the kinds that the run does not manage.
Rest(kind) ==
    IF kind \in Singletons
    THEN [exists |-> TRUE, el |-> CHOOSE e \in InitialObjects(kind) : TRUE]
    ELSE NoObject(kind)

NoCall == [op |-> "none"]

Init ==
    /\ focus \in Runs
    /\ \E o \in {NoObject(k) : k \in {KindOf(focus)} \ Singletons}
                \cup {[exists |-> TRUE, el |-> e] : e \in InitialObjects(focus)} :
          srv = [k \in Kinds |-> IF k = KindOf(focus) THEN o ELSE Rest(k)]
    /\ call = NoCall
    /\ GRAINS_CACHE = None
    /\ DETAILS = {}

Next ==
    \/ category
    \/ building
    \/ site
    \/ network_segment
    \/ distribution_point
    \/ inventory_collection
    \/ policy
    \/ script
    \/ lookup
    \/ sso_settings
    \/ package
    \/ jamf_script
    \/ ldap_server
    \/ smart_computer_group
    \/ manage_mac_profile

Spec == Init /\ [][Next]_vars

\* _policy_triggers by itself, applied once to each representation.
InitTriggers ==
    /\ focus = "_policy_triggers"
    /\ \E e \in TriggerPolicies :
          srv = [k \in Kinds |-> IF k = "policy" THEN [exists |-> TRUE, el |-> e] ELSE Rest(k)]
    /\ call = NoCall
    /\ GRAINS_CACHE = None
    /\ DETAILS = {}

NextTriggers == apply_policy_triggers \/ jamf_policy_triggers

SpecTriggers == InitTriggers /\ [][NextTriggers]_vars

---------------------------------------------------------------------------
(* _states/jamf_org.py: two invocations of category at the same time.      *)
(* An invocation is two requests, the fetch and the save, and the other    *)
(* invocation may run between them.                                        *)

Procs == {1, 2}

\* An invocation that has not started.
Idle ==
    [pc |-> "start", priority |-> None, existed |-> FALSE,
     el |-> BlankCategory(NameOf("category")), ret |-> InitialRet(NameOf("category")),
     saves |-> 0, saved |-> FALSE, raised |-> ""]

\* j.Category(name): the invocation p fetches the category, or constructs
\* it.  overlap tells that both invocations have fetched and neither is over.
category_fetch(p) ==
    \E priority \in Priorities \cup {I(7)} :
        /\ call.op = "concurrent"
        /\ call.proc[p].pc = "start"
        /\ call' = [call EXCEPT
                       !.proc[p] = [@ EXCEPT !.pc = "fetched", !.priority = priority,
                                             !.existed = srv.category.exists,
                                             !.el = Fetch("category", NameOf("category"))],
                       !.overlap = @ \/ \E q \in Procs \ {p} : call.proc[q].pc = "fetched"]
        /\ UNCHANGED <<srv, focus, GRAINS_CACHE, DETAILS>>

\* The rest of the invocation p: the comparison, the save and the return.
\* The server rejects the creation of a category that it has by now.
category_finish(p) ==
    \E saveOK \in BOOLEAN :
        /\ call.op = "concurrent"
        /\ call.proc[p].pc = "fetched"
        /\ LET me == call.proc[p]
               taken == saveOK /\ (me.existed \/ ~srv.category.exists)
               r == category_on(me.el, me.existed, NameOf("category"), me.priority, taken)
           IN  /\ srv' = IF r.saved
                         THEN [srv EXCEPT !.category = [exists |-> TRUE, el |-> r.rep]]
                         ELSE srv
               /\ call' = [call EXCEPT
                              !.proc[p] = [@ EXCEPT !.pc = "done", !.ret = r.ret,
                                                    !.saves = r.saves, !.saved = r.saved,
                                                    !.raised = r.raised],
                              !.last = IF r.saved THEN p ELSE @]
        /\ UNCHANGED <<focus, GRAINS_CACHE, DETAILS>>

InitConcurrent ==
    /\ focus = "category"
    /\ \E o \in {NoObject("category")}
                \cup {[exists |-> TRUE, el |-> e] : e \in InitialObjects("category")} :
          srv = [k \in Kinds |-> IF k = "category" THEN o ELSE Rest(k)]
    /\ call = [op |-> "concurrent", proc |-> [p \in Procs |-> Idle], last |-> 0,
               overlap |-> FALSE]
    /\ GRAINS_CACHE = None
    /\ DETAILS = {}

NextConcurrent == \E p \in Procs : category_fetch(p) \/ category_finish(p)

SpecConcurrent == InitConcurrent /\ [][NextConcurrent]_vars

---------------------------------------------------------------------------
(* _proxy/jamf_proxy.py: the grains of the proxy minion.  GRAINS_CACHE and *)
(* DETAILS are the globals of the module.  A dict whose keys vary is the   *)
(* set of its items <<key, value>>; GRAINS_CACHE is None or D(items).      *)

\* The keys of a dict, and d[k] = v.
Keys(d) == {item[1] : item \in d}
SetItem(d, k, v) == {item \in d : item[1] # k} \cup {<<k, v>>}

\* The outcome of a request: it raises, or it returns a decoded body.
Raises == <<"raises">>
Returns(body) == <<"returns", body>>

\* What the server may answer to the four requests of grains: healthCheck.html
\* (an empty list when the setup is complete, else a list of one status),
\* SystemInformation (ssoSamlLoginUri can be undefined), Lobby, StartupStatus.
Answers ==
    [health : {Raises, Returns(<< >>),
               Returns(<<[healthCode |-> 2, description |-> "SETUP_ASSISTANT"]>>)},
     system_info : {Raises,
                    Returns([isByodEnabled |-> FALSE, isCloudDeploymentsEnabled |-> FALSE,
                             isDepAccountEnabled |-> TRUE, isPatchEnabled |-> TRUE,
                             isSsoSamlEnabled |-> FALSE, isUserMigrationEnabled |-> FALSE,
                             isVppTokenEnabled |-> TRUE]),
                    Returns([isByodEnabled |-> FALSE, isCloudDeploymentsEnabled |-> FALSE,
                             isDepAccountEnabled |-> TRUE, isPatchEnabled |-> TRUE,
                             isSsoSamlEnabled |-> TRUE, isUserMigrationEnabled |-> FALSE,
                             isVppTokenEnabled |-> TRUE,
                             ssoSamlLoginUri |-> "https://jss.example.com/saml/SSO"])},
     lobby : {Raises, Returns([version |-> "10.9.0"])},
     startup_status : {Raises, Returns([percentage |-> 100, step |-> "DONE"])}]

\* init(opts): the url, then the client, then the mark.  made tells that
\* jss.JSS(...) returns; when it raises, DETAILS holds the url only.
init ==
    \E made \in BOOLEAN :
        LET url == SetItem(DETAILS, "url", S("https://jss.example.com/"))
        IN  /\ DETAILS' = IF made
                          THEN SetItem(SetItem(url, "jss", S("JSS")), "initialized", B(TRUE))
                          ELSE url
            /\ call' = [op |-> "init", raised |-> IF made THEN "" ELSE "JSSError",
                        ret |-> None, queries |-> 0, before |-> GRAINS_CACHE,
                        initialized |-> "initialized" \in Keys(DETAILS)]
            /\ UNCHANGED <<srv, focus, GRAINS_CACHE>>

\* The body of 'if GRAINS_CACHE is None:'.  GRAINS_CACHE = {} comes first, and
\* every assignment goes to the global at once: a statement that raises
\* leaves in the cache what the statements before it put there.  queries
\* counts the requests sent to the server.
grains_fill(details, answers) ==
    LET left(items, error, queries) ==
            [cache |-> D(items), ret |-> None, raised |-> error, queries |-> queries]
        setup_complete == Len(answers.health[2]) = 0
        status == answers.health[2][1]
        info == answers.system_info[2]
        c1 == SetItem({}, "jamf_setup_complete", B(setup_complete))
        unfinished == SetItem(SetItem(c1, "jamf_setup_health_code", I(status.healthCode)),
                              "jamf_setup_description", S(status.description))
        flags == {<<"jamf_is_byod_enabled", "isByodEnabled">>,
                  <<"jamf_is_cloud_deployments_enabled", "isCloudDeploymentsEnabled">>,
                  <<"jamf_is_dep_account_enabled", "isDepAccountEnabled">>,
                  <<"jamf_is_patch_enabled", "isPatchEnabled">>,
                  <<"jamf_is_sso_saml_enabled", "isSsoSamlEnabled">>,
                  <<"jamf_is_user_migration_enabled", "isUserMigrationEnabled">>,
                  <<"jamf_is_vpp_token_enabled", "isVppTokenEnabled">>}
        c2 == SetItem(c1 \cup {<<f[1], B(info[f[2]])>> : f \in flags},
                      "jamf_sso_saml_login_uri",
                      IF "ssoSamlLoginUri" \in DOMAIN info THEN S(info.ssoSamlLoginUri)
                      ELSE None)
        c3 == SetItem(c2, "jamf_version", S(answers.lobby[2].version))
        c4 == SetItem(SetItem(c3, "jamf_startup_percentage",
                              I(answers.startup_status[2].percentage)),
                      "jamf_startup_step", S(answers.startup_status[2].step))
    IN  IF "url" \notin Keys(details) THEN left({}, "KeyError", 0)
        ELSE IF answers.health = Raises THEN left({}, "Error", 1)
        ELSE IF ~setup_complete
        THEN [cache |-> D(unfinished), ret |-> D(unfinished), raised |-> "", queries |-> 1]
        ELSE IF "jss" \notin Keys(details) THEN left(c1, "KeyError", 1)
        ELSE IF answers.system_info = Raises THEN left(c1, "Error", 2)
        ELSE IF answers.lobby = Raises THEN left(c2, "Error", 3)
        ELSE IF answers.startup_status = Raises THEN left(c3, "Error", 4)
        ELSE [cache |-> D(c4), ret |-> D(c4), raised |-> "", queries |-> 4]

\* grains with every call going to the server.
grains_run_uncached(cache, details, answers) == grains_fill(details, answers)

\* grains(): the cache is filled when it is None, and returned.
grains_run(cache, details, answers) ==
    IF cache = None THEN grains_fill(details, answers)
    ELSE [cache |-> cache, ret |-> cache, raised |-> "", queries |-> 0]

grains ==
    \E answers \in Answers :
        LET r == grains_run(GRAINS_CACHE, DETAILS, answers)
        IN  /\ GRAINS_CACHE' = r.cache
            /\ call' = [op |-> "grains", raised |-> r.raised, ret |-> r.ret,
                        queries |-> r.queries, before |-> GRAINS_CACHE,
                        initialized |-> "initialized" \in Keys(DETAILS)]
            /\ UNCHANGED <<srv, focus, DETAILS>>

\* grains_refresh(): GRAINS_CACHE = None; return grains()
grains_refresh ==
    \E answers \in Answers :
        LET r == grains_run(None, DETAILS, answers)
        IN  /\ GRAINS_CACHE' = r.cache
            /\ call' = [op |-> "grains_refresh", raised |-> r.raised, ret |-> r.ret,
                        queries |-> r.queries, before |-> GRAINS_CACHE,
                        initialized |-> "initialized" \in Keys(DETAILS)]
            /\ UNCHANGED <<srv, focus, DETAILS>>

\* The module as imported: GRAINS_CACHE = None, DETAILS = {}.
InitProxy ==
    /\ focus = "grains"
    /\ srv = [k \in Kinds |-> Rest(k)]
    /\ call = NoCall
    /\ GRAINS_CACHE = None
    /\ DETAILS = {}

NextProxy == init \/ grains \/ grains_refresh

SpecProxy == InitProxy /\ [][NextProxy]_vars

---------------------------------------------------------------------------
(* Properties of category.                                                 *)

\* C1: category(name, priority) is idempotent.  An invocation that repeats
\* the one before it (same arguments, the first returned success), against
\* the server state the first one left, records no changes, returns result
\* True and issues no save call, whatever the server held at first.
C1_CategoryIdempotent ==
    (call.op = "category" /\ call.again) =>
        /\ call.raised = ""
        /\ call.saves = 0
        /\ call.ret.result = "True"
        /\ DOMAIN call.ret.changes = {}

\* C1 witness: a second application, by an integer priority, of a category
\* that the first application had to change.
C1_SecondApplication ==
    /\ call.op = "category" /\ call.again
    /\ call.args.priority = I(5)
    /\ call.saves = 0

\* C2: category on an existing category whose stored priority differs from
\* the desired one issues exactly one save call and, when the server takes
\* it, returns result True with changes.old = {priority: stored} and
\* changes.new = {priority: desired} and no other field.
C2_CategoryUpdateChanges ==
    (call.op = "category" /\ call.existed /\ call.pre.priority # str(call.args.priority)) =>
        /\ call.saves = 1
        /\ call.raised # "" => ~call.saveOK
        /\ call.raised = "" =>
              /\ call.ret.result = "True"
              /\ call.ret.changes = [old |-> ("priority" :> call.pre.priority),
                                     new |-> ("priority" :> str(call.args.priority))]

\* C2 witness: the stored priority '9' is replaced by the desired 5.
C2_PriorityReplaced ==
    /\ call.op = "category" /\ call.existed
    /\ call.pre.priority = S("9") /\ call.args.priority = I(5)
    /\ call.saves = 1 /\ call.raised = ""
    /\ srv.category.el.priority = S("5")

---------------------------------------------------------------------------
(* Properties of the dry run and of the other functions of jamf_org.py.    *)

\* Whether an invocation has a field whose desired value differs from the
\* fetched one (for an invocation whose arguments are valid).
C3_Differs ==
    CASE call.op = "network_segment" ->
           /\ call.args.ip_range # None
           /\ Len(call.args.ip_range[2]) = 2
           /\ \/ call.args.ip_range[2][1] # findtext(call.pre.starting_address)
              \/ call.args.ip_range[2][2] # findtext(call.pre.ending_address)
              \/ call.args.distribution_point # findtext(call.pre.distribution_point)
      [] call.op = "distribution_point" ->
           /\ call.args.connection_type \in {S("SMB"), S("AFP")}
           /\ \E f \in DPFields : call.args[f] # None /\ call.args[f] # call.pre[f]
      [] call.op = "inventory_collection" ->
           \E x \in InventorySettings :
              /\ call.args[x] # None
              /\ call.args[x] # B(call.pre[InventoryNode(x)] = S("true"))
      [] OTHER -> FALSE

\* The fields that differ, by the key that changes reports them under.
C3_DifferingKeys ==
    CASE call.op = "network_segment" ->
           {f \in {"starting_address", "ending_address", "distribution_point"} :
              (IF f = "starting_address" THEN call.args.ip_range[2][1]
               ELSE IF f = "ending_address" THEN call.args.ip_range[2][2]
               ELSE call.args.distribution_point) # findtext(call.pre[f])}
      [] call.op = "distribution_point" ->
           {f \in DPFields : call.args[f] # None /\ call.args[f] # call.pre[f]}
      [] call.op = "inventory_collection" ->
           {x \in InventorySettings :
              call.args[x] # None /\ call.args[x] # B(call.pre[InventoryNode(x)] = S("true"))}

\* C3: with __opts__['test'] set, network_segment, distribution_point and
\* inventory_collection issue no save call; when a field differs they return
\* result None, the computed changes (every differing field is a key of
\* changes.new) and the comment '<name> would be modified'.
C3_DryRunPending ==
    (call.op \in {"network_segment", "distribution_point", "inventory_collection"} /\ call.test) =>
        /\ call.saves = 0
        /\ C3_Differs =>
              /\ call.raised = ""
              /\ call.ret.result = "None"
              /\ call.ret.comment = NameOf(call.kind) \o " would be modified"
              /\ C3_DifferingKeys \subseteq DOMAIN call.ret.changes.new

\* C3 witnesses: a dry run of each of the three functions with a differing
\* field, the server left as it was.
C3_DryRunSegment ==
    /\ call.op = "network_segment" /\ call.test /\ C3_Differs /\ call.existed
    /\ call.rep # call.pre /\ srv.network_segment.el = call.pre
C3_DryRunSeen ==
    /\ call.op = "inventory_collection" /\ call.test /\ C3_Differs
    /\ call.rep # call.pre /\ srv.inventory_collection.el = call.pre
    /\ call.ret.result = "None"

\* C4: with the dry-run flag set, policy and category issue no save call,
\* and when changes were computed the result is None (pending), not True.
C4_DryRunNoSave ==
    (call.op \in {"policy", "category"} /\ call.test) =>
        /\ call.saves = 0
        /\ (call.raised = "" /\ DOMAIN call.ret.changes # {}) => call.ret.result = "None"

\* C6: distribution_point leaves alone every optional field that the caller
\* omits (None): its node is the fetched one, not created and not changed,
\* and the field is no key of changes.old or changes.new.
C6_OmittedFieldUntouched ==
    (call.op = "distribution_point" /\ call.raised = ""
       /\ call.args.connection_type \in {S("SMB"), S("AFP")}) =>
        \A f \in DPStrFields :
            call.args[f] = None =>
                /\ call.rep[f] = call.pre[f]
                /\ f \notin DOMAIN call.ret.changes.old
                /\ f \notin DOMAIN call.ret.changes.new

\* C8: building(name) of a name the server does not have constructs the
\* building, saves it with one save call and returns result True with
\* changes.new naming it.
C8_BuildingCreated ==
    (call.op = "building" /\ ~call.existed) =>
        /\ call.raised = ""
        /\ call.saves = 1
        /\ srv.building.exists
        /\ call.ret.result = "True"
        /\ DOMAIN call.ret.changes = {"old", "new"}
        /\ call.ret.changes.new = ("name" :> S(NameOf("building")))

---------------------------------------------------------------------------
(* Properties of policy.                                                   *)

\* Whether the fetched policy matches every value that the invocation
\* supplies.
C5_Matches ==
    /\ call.args.frequency = call.pre.frequency
    /\ call.args.enabled = B(call.pre.enabled = S("true"))
    /\ call.args.site \in {None, call.pre.site}
    /\ call.args.category \in {None, call.pre.category}
    /\ call.args.triggers # None =>
          SetOf(call.args.triggers) = old_triggers(call.pre)
    /\ call.args.scope # None =>
          /\ all_computers_of(call.args.scope) \in {None, B(call.pre.all_computers = S("true"))}
          /\ computer_groups_of(call.args.scope) # None =>
                SetOf(computer_groups_of(call.args.scope)) = call.pre.computer_groups
    /\ call.args.packages # None => SetOf(call.args.packages) = call.pre.packages
    /\ call.args.maintenance \in {None, B(call.pre.recon = S("true"))}
    /\ call.args.self_service \in {None, B(call.pre.use_for_self_service = S("true"))}

\* C5: policy on a fetched policy that matches every supplied value issues
\* no save call and returns result True with empty old and new mappings.
C5_MatchingPolicyNoSave ==
    (call.op = "policy" /\ call.existed /\ C5_Matches) =>
        /\ call.saves = 0
        /\ call.raised = ""
        /\ call.ret.result = "True"
        /\ DOMAIN call.ret.changes # {} =>
              /\ DOMAIN call.ret.changes.old = {}
              /\ DOMAIN call.ret.changes.new = {}

\* The current triggers of the representation that _policy_triggers was
\* given, and the desired ones.
C7_Current ==
    {r \in ReservedTriggers : call.pre.triggers[r] = S("true")}
        \cup (IF call.pre.trigger_other # << >>
                 /\ call.pre.trigger_other[1] \notin {None, S("")}
              THEN {call.pre.trigger_other[1][2]} ELSE {})
C7_Desired == {call.args.triggers[2][i] : i \in 1..Len(call.args.triggers[2])}

\* C7: _policy_triggers adds the desired triggers that are not current and
\* removes the current ones that are not desired, whatever the order and
\* the repetitions of the desired list; when there is nothing to add and
\* nothing to remove the representation is left as it was and the lists
\* returned are empty.
C7_TriggerSetDifference ==
    (call.op = "_policy_triggers" /\ call.args.triggers # None) =>
        /\ call.triggers_add = C7_Desired \ C7_Current
        /\ call.triggers_remove = C7_Current \ C7_Desired
        /\ (call.triggers_add = {} /\ call.triggers_remove = {}) =>
              /\ call.rep = call.pre
              /\ call.ret.old = L(<< >>)
              /\ call.ret.new = L(<< >>)

\* C7 witness: a desired list that repeats a trigger, with one trigger to
\* add and one to remove.
C7_AddAndRemove ==
    /\ call.op = "_policy_triggers"
    /\ call.args.triggers = L(<<"nightly", "checkin", "checkin">>)
    /\ C7_Current = {"checkin", "login"}
    /\ call.triggers_add = {"nightly"}
    /\ call.triggers_remove = {"login"}
    /\ call.rep.triggers["login"] = S("false")

\* A desired list in another order than the current triggers, with nothing
\* to add or remove.
C7_NothingToDo ==
    /\ call.op = "_policy_triggers"
    /\ call.args.triggers = L(<<"jamf-update", "login", "checkin">>)
    /\ call.triggers_add = {} /\ call.triggers_remove = {}

---------------------------------------------------------------------------
(* Properties of script and of the lookup functions.                       *)

\* C9: script called with both source and contents (neither is None), the
\* empty source included, raises an invocation error before any call of a
\* file module, any fetch and any save.
C9_BothGivenRaises ==
    (call.op = "script" /\ call.args.source # None /\ call.args.contents # None) =>
        /\ call.raised = "SaltInvocationError"
        /\ call.files = << >>
        /\ call.fetches = 0
        /\ call.saves = 0

\* Whether exactly one of the name and the id of a lookup is given.
C10_OneGiven == (call.args.id = None) # (call.args.name = None)

\* C10: a lookup called with neither a name nor an id, or with both, is an
\* invocation error, and no request is made.
C10_ExactlyOne ==
    (call.op = "lookup" /\ ~C10_OneGiven) =>
        /\ call.raised = "SaltInvocationError"
        /\ call.fetches = 0

---------------------------------------------------------------------------
(* Properties of sso_settings.                                             *)

\* C11: every normal return of sso_settings, with the dry-run flag set or
\* not, returns the mapping with the keys name, result, changes and comment.
C11_ReturnsMapping ==
    (call.op = "sso_settings" /\ call.raised = "") =>
        /\ call.returns = "ret"
        /\ {"name", "result", "changes", "comment"} \subseteq DOMAIN call.ret

\* C25: after sso_settings, dry run off, with a use_for list, each of the
\* three flags is true exactly when its service is in the caller's list,
\* and a list that is not empty and lacks 'jss' raises an invocation error.
C25_FlagsFollowCaller ==
    (call.op = "sso_settings" /\ ~call.test) =>
        IF SetOf(call.args.use_for) # {} /\ "jss" \notin SetOf(call.args.use_for)
        THEN call.raised = "SaltInvocationError"
        ELSE call.raised = "" =>
                \A s \in {"jss", "enrollment", "self_service"} :
                    call.rep[ServiceFlag(s)] <=> (s \in SetOf(call.args.use_for))

\* C25: called with use_for ['jss'], sso_settings saves the settings with
\* the self service flag on.
C25_AllServicesEnabled ==
    /\ call.op = "sso_settings" /\ ~call.test /\ call.raised = "" /\ call.saves = 1
    /\ call.args.use_for = L(<<"jss">>)
    /\ ~call.pre.isEnabledOsx
    /\ srv.sso_settings.el.isEnabledOsx

\* C25: called with use_for ['enrollment'], sso_settings raises nothing.
C25_MissingJssAccepted ==
    /\ call.op = "sso_settings" /\ ~call.test /\ call.raised = ""
    /\ call.args.use_for = L(<<"enrollment">>)
    /\ call.rep.isEnabledJss

---------------------------------------------------------------------------
(* Properties of the save call.                                            *)

\* C12: when the save call of network_segment or distribution_point fails
\* (dry run off, changes computed), for a new object as for an existing one,
\* the function does not raise: it returns result False and a comment that
\* carries the message of the server.
C12_SaveFailureReported ==
    (call.op \in {"network_segment", "distribution_point"} /\ ~call.test
       /\ call.saves = 1 /\ ~call.saveOK) =>
        /\ call.raised = ""
        /\ call.ret.result = "False"
        /\ call.ret.comment = "Unable to save " \o NameOf(call.kind) \o ", reason: "
                              \o ServerMessage

---------------------------------------------------------------------------
(* Properties of concurrent invocations.                                   *)

\* C13: no invocation of category detects that another one ran between its
\* fetch and its save.  An invocation of an existing category whose save the
\* server takes returns result True, and the server keeps the value of the
\* invocation that saved last, whatever the other one saved before.
C13_LastWriteWins ==
    call.op = "concurrent" =>
        /\ \A p \in Procs :
              (call.proc[p].pc = "done" /\ call.proc[p].existed /\ call.proc[p].raised = "") =>
                  call.proc[p].ret.result = "True"
        /\ call.last # 0 =>
              srv.category.el.priority = str(call.proc[call.last].priority)

\* C13 witness: both invocations fetched the category before either saved,
\* with different desired priorities; both saved and returned result True,
\* and the server holds the priority of the second only.
C13_LostUpdate ==
    /\ call.op = "concurrent" /\ call.overlap
    /\ \A p \in Procs : /\ call.proc[p].pc = "done"
                        /\ call.proc[p].saved
                        /\ call.proc[p].ret.result = "True"
    /\ call.last = 2
    /\ str(call.proc[1].priority) # str(call.proc[2].priority)
    /\ srv.category.el.priority = str(call.proc[2].priority)

---------------------------------------------------------------------------
(* Properties of every state function that saves.                          *)

C14_FailedSaveOnce ==
    /\ call.op = "policy" /\ call.saves = 1 /\ ~call.saveOK
    /\ call.rep # call.pre /\ srv.policy.el = call.pre

---------------------------------------------------------------------------
(* Properties of the scope of a policy.                                    *)

\* The groups that an invocation of policy has to resolve and the server
\* does not have.
C15_Missing ==
    IF call.op = "policy" /\ call.fetches = 1 /\ call.args.scope # None
       /\ computer_groups_of(call.args.scope) # None
    THEN (SetOf(computer_groups_of(call.args.scope)) \ call.pre.computer_groups) \ KnownGroups
    ELSE {}

C21_ScopeEqualsDesired ==
    (/\ call.op = "policy" /\ call.fetches = 1 /\ call.raised = ""
     /\ call.args.scope # None
     /\ computer_groups_of(call.args.scope) # None
     /\ SetOf(computer_groups_of(call.args.scope)) \subseteq KnownGroups) =>
        call.rep.computer_groups = SetOf(computer_groups_of(call.args.scope))

\* C21: the policy was scoped to 'Lab Macs', the desired list is 'Staff',
\* and the policy that is saved is scoped to both.
C21_GroupNotRemoved ==
    /\ call.op = "policy" /\ call.raised = "" /\ call.saves = 1 /\ call.saveOK
    /\ call.args.scope # None
    /\ computer_groups_of(call.args.scope) = L(<<"Staff">>)
    /\ call.pre.computer_groups = {"Lab Macs"}
    /\ call.rep.computer_groups = {"Lab Macs", "Staff"}
    /\ srv.policy.el.computer_groups = {"Lab Macs", "Staff"}

---------------------------------------------------------------------------
(* Properties of the script state of _states/jamf.py.                      *)

\* The second application of script with one source: the invocation repeats
\* the one before it, the script exists and its stored contents are those of
\* the source file.
C16_SecondApplication ==
    /\ call.op = "jamf_script" /\ call.again /\ call.existed
    /\ call.args.source # None /\ call.args.contents = None
    /\ call.args.source[2] \in SourceFiles
    /\ call.pre.script_contents = S(FileStr(call.args.source[2]))

\* C16: the second application of script with the same source issues no
\* save call and returns result True with no changes and the comment that
\* the script is in the correct state, for every hash type.
C16_ScriptIdempotent ==
    C16_SecondApplication =>
        /\ call.raised = "" /\ call.saves = 0
        /\ call.ret.result = "True"
        /\ "diff" \notin DOMAIN call.ret.changes
        /\ call.ret.comment = "Script " \o NameOf("script") \o " is in the correct state"

\* C16: with the hash type sha256 the second application saves nothing but
\* does not report success.
C16_Sha256NotReported ==
    /\ C16_SecondApplication /\ call.args.hash_type = "sha256"
    /\ call.saves = 0 /\ call.ret.result = "False"
    /\ call.ret.comment = "Script " \o NameOf("script") \o " updated"

\* C16: with another hash type the second application saves again.
C16_Md5SavesAgain ==
    /\ C16_SecondApplication /\ call.args.hash_type = "md5"
    /\ call.saves = 1 /\ "diff" \in DOMAIN call.ret.changes

\* C28: manage_script with a parameters list enters a parameter node in the
\* changes only when the text of that node changes: for a script whose nodes
\* hold the list, the nodes beyond it empty, no parameter is in changes.old
\* or changes.new.
C28_OnlyChangedParameters ==
    (/\ call.op = "jamf_script" /\ call.fetches = 1 /\ call.raised = ""
     /\ call.args.parameters # None
     /\ call.rep.parameters = call.pre.parameters) =>
        /\ DOMAIN call.ret.changes.old = {}
        /\ DOMAIN call.ret.changes.new = {}

\* C28: the script holds the one parameter of the list, its other nodes are
\* empty, and the seven nodes beyond the list are entered in the changes.
C28_TrailingParametersEntered ==
    /\ call.op = "jamf_script" /\ call.fetches = 1 /\ call.raised = "" /\ call.existed
    /\ call.args.parameters = L(<<"/Applications">>)
    /\ call.pre.parameters[4] = S("/Applications")
    /\ \A n \in ParameterNumbers \ {4} : call.pre.parameters[n] = None
    /\ DOMAIN call.ret.changes.new = {"parameter" \o ToString(n) : n \in ParameterNumbers \ {4}}

---------------------------------------------------------------------------
(* Properties of ldap_server.                                              *)

\* The desired value of each connection field of an invocation of
\* ldap_server, and the fields whose stored value differed from it.
C17_Desired ==
    [p \in LDAPRequired \cup {"search_timeout", "connection_is_used_for"} |->
        IF p = "port" THEN str(call.args[p])
        ELSE IF p = "connection_is_used_for" THEN S("users")
        ELSE call.args[p]]
C17_Differing ==
    {p \in DOMAIN C17_Desired : C17_Desired[p] # Absent /\ call.pre[p] # C17_Desired[p]}

\* C17: on every return of ldap_server, changes.old and changes.new are
\* mappings whose keys are exactly the connection fields whose stored value
\* differed from the desired one (both are empty when the server matched).
C17_ChangesAreTheDifferences ==
    (call.op = "ldap_server" /\ call.raised = "") =>
        /\ call.ret.changes.old[1] = "dict"
        /\ call.ret.changes.new[1] = "dict"
        /\ DOMAIN call.ret.changes.old[2] = C17_Differing
        /\ DOMAIN call.ret.changes.new[2] = C17_Differing

\* C17: the fetched server matched every value and changes.new lists the
\* four required fields.
C17_MatchReported ==
    /\ call.op = "ldap_server" /\ call.raised = "" /\ call.existed
    /\ C17_Differing = {}
    /\ call.ret.changes.new[1] = "dict"
    /\ DOMAIN call.ret.changes.new[2] = LDAPRequired

\* C17: an optional field differed and changes.new is its value, no mapping.
C17_MappingReplaced ==
    /\ call.op = "ldap_server" /\ call.raised = "" /\ call.existed
    /\ "search_timeout" \in C17_Differing
    /\ call.ret.changes.old = None
    /\ call.ret.changes.new[1] = "str"

---------------------------------------------------------------------------
(* Properties of the flags and nodes that _policy_triggers leaves.         *)

\* C18: after _policy_triggers returns for a desired list, a reserved
\* trigger has the flag text 'true' exactly when it is in the list,
\* whatever the representation was.
C18_FlagsMatchDesired ==
    (call.op = "_policy_triggers" /\ call.args.triggers # None) =>
        \A r \in ReservedTriggers :
            (r \in SetOf(call.args.triggers)) <=> (findtext(call.rep.triggers[r]) = S("true"))

\* C18: a desired reserved trigger whose node was absent or empty is still
\* not 'true' when _policy_triggers has returned a change.
C18_FlagNotSet ==
    /\ call.op = "_policy_triggers" /\ call.args.triggers # None
    /\ "checkin" \in SetOf(call.args.triggers)
    /\ "checkin" \in call.triggers_add
    /\ call.pre.triggers["checkin"] \in {Absent, None}
    /\ call.rep.triggers["checkin"] = call.pre.triggers["checkin"]
    /\ call.ret.new = call.args.triggers


\* C19: after _policy_triggers, the general node of the policy has at most
\* one trigger_other child: a custom trigger is written to the node that is
\* there, and a node is appended only when there is none.
C19_SingleCustomSlot ==
    call.op = "_policy_triggers" => Len(call.rep.trigger_other) <= 1

\* C19: the policy had one trigger_other node, a custom trigger was added
\* and the policy has two.
C19_SecondNode ==
    /\ call.op = "_policy_triggers"
    /\ Len(call.pre.trigger_other) = 1
    /\ call.triggers_add \ ReservedTriggers # {}
    /\ Len(call.rep.trigger_other) = 2


\* C20: in the policy of _states/jamf.py, a policy whose trigger_other node
\* is there without text and whose reserved triggers that hold 'true' are
\* the desired list has nothing to add and nothing to remove: no trigger
\* change is reported and the representation is left as it was.
C20_EmptyCustomIgnored ==
    (/\ call.op = "jamf_policy_triggers" /\ call.args.triggers # None
     /\ call.pre.trigger_other \in {<<None>>, <<S("")>>}
     /\ {r \in ReservedTriggers : call.pre.triggers[r] = S("true")} = SetOf(call.args.triggers)) =>
        /\ call.triggers_add = {} /\ call.triggers_remove = {}
        /\ call.ret.new = L(<< >>)
        /\ call.rep = call.pre

\* C20: such a policy, with 'checkin' on and desired, has the empty text of
\* its trigger_other node removed as a trigger and the change reported.
C20_EmptyCustomRemoved ==
    /\ call.op = "jamf_policy_triggers"
    /\ call.args.triggers = L(<<"checkin">>)
    /\ call.pre.trigger_other = <<None>>
    /\ {r \in ReservedTriggers : call.pre.triggers[r] = S("true")} = {"checkin"}
    /\ call.triggers_remove = {""}
    /\ call.ret.new = call.args.triggers

---------------------------------------------------------------------------
(* Properties of the fields of a policy.                                   *)

\* C22: policy called with a site writes it to the name of the policy's
\* site and leaves the policy's own name as it was.
C22_SiteNotPolicyName ==
    (call.op = "policy" /\ call.fetches = 1 /\ call.raised = "" /\ call.args.site # None) =>
        /\ call.rep.name = call.pre.name
        /\ call.rep.site = call.args.site

\* C22: policy 'Update' called with the site 'Sydney' is saved under the
\* name 'Sydney', its site node without a name.
C22_PolicyRenamed ==
    /\ call.op = "policy" /\ call.raised = "" /\ call.saves = 1 /\ call.saveOK
    /\ call.args.site = S("Sydney")
    /\ call.pre.name = S("Update")
    /\ srv.policy.el.name = S("Sydney")
    /\ srv.policy.el.site # S("Sydney")


\* The nodes of a policy that hold a boolean.
C23_PolicyFlags == {"enabled", "all_computers", "recon", "use_for_self_service"}

\* C23: every boolean that policy and inventory_collection write into the
\* representation is the text 'true' or 'false'.
C23_BooleanLiterals ==
    /\ (call.op = "policy" /\ call.fetches = 1) =>
          \A f \in C23_PolicyFlags :
              call.rep[f] # call.pre[f] => call.rep[f] \in {S("true"), S("false")}
    /\ call.op = "inventory_collection" =>
          \A n \in InventoryNodes :
              call.rep[n] # call.pre[n] => call.rep[n] \in {S("true"), S("false")}

\* C23: policy called with enabled=True on a policy that is not enabled
\* writes 'True', which the comparison of the next invocation reads as
\* false.
C23_WrittenTrueReadFalse ==
    /\ call.op = "policy" /\ call.raised = ""
    /\ call.args.enabled = B(TRUE)
    /\ call.pre.enabled = S("false")
    /\ call.rep.enabled = S("True")
    /\ B(call.rep.enabled = S("true")) # call.args.enabled

---------------------------------------------------------------------------
(* Properties of inventory_collection.                                     *)

\* C24: for every setting that inventory_collection reports in changes,
\* changes.old holds what the fetched representation had and changes.new
\* the desired value passed for that setting.
C24_ChangesOfTheSetting ==
    (call.op = "inventory_collection" /\ "new" \in DOMAIN call.ret.changes) =>
        \A x \in DOMAIN call.ret.changes.new :
            /\ call.ret.changes.old[x] = B(call.pre[InventoryNode(x)] = S("true"))
            /\ call.ret.changes.new[x] = call.args[x]

\* C24: services is reported with the value passed for hidden_accounts.
C24_ServicesReportedAsHidden ==
    /\ call.op = "inventory_collection" /\ "new" \in DOMAIN call.ret.changes
    /\ call.args.services = B(FALSE)
    /\ call.args.hidden_accounts = None
    /\ "services" \in DOMAIN call.ret.changes.new
    /\ call.ret.changes.new["services"] = None

---------------------------------------------------------------------------
(* Properties of smart_computer_group.                                     *)

\* C26: a group created from a criteria list with n entries has n criterion
\* nodes, with the priorities 0..n-1 and the fields of the entries in the
\* order of the list, and changes.new.criteria lists the n criteria.
C26_AllCriteriaReported ==
    (call.op = "smart_computer_group" /\ ~call.existed /\ call.raised = "") =>
        LET n == Len(call.args.criteria)
        IN  /\ Len(call.rep.criteria) = n
            /\ \A i \in 1..n :
                  /\ call.rep.criteria[i].priority = S(ToString(i - 1))
                  /\ call.rep.criteria[i].name = S(call.args.criteria[i].name)
            /\ n > 0 =>
                  /\ "criteria" \in DOMAIN call.ret.changes.new
                  /\ call.ret.changes.new["criteria"] = L(call.rep.criteria)

\* C26: a group is created with two criteria and changes.new.criteria lists
\* the second only.
C26_LastCriterionOnly ==
    /\ call.op = "smart_computer_group" /\ ~call.existed /\ call.raised = ""
    /\ Len(call.args.criteria) = 2
    /\ Len(srv.smart_computer_group.el.criteria) = 2
    /\ call.ret.changes.new["criteria"] = L(<<call.rep.criteria[2]>>)

---------------------------------------------------------------------------
(* Properties of manage_mac_profile.                                       *)

\* C27: for a profile that exists, manage_mac_profile replaces the payload
\* by that of the source file and returns with the change when the two
\* sets of PayloadUUIDs differ, in either direction; when they are equal
\* the payload is left as it was.
C27_PayloadFollowsSource ==
    (call.op = "manage_mac_profile" /\ call.existed /\ call.args.source # None) =>
        IF call.args.source[2] # call.pre.payloads[2]
        THEN call.rep.payloads = call.args.source /\ call.raised \in {"", "PutError"}
        ELSE call.rep.payloads = call.pre.payloads

\* C27: the source file lacks a PayloadUUID of the stored payload and has no
\* other: the payload is kept and the profile is saved as identical.
C27_RemovedPayloadKept ==
    /\ call.op = "manage_mac_profile" /\ call.existed /\ call.raised = ""
    /\ call.args.source = <<"plist", {"uuid-1"}>>
    /\ call.pre.payloads = <<"plist", {"uuid-1", "uuid-2"}>>
    /\ call.rep.payloads = call.pre.payloads
    /\ call.ret.comment = "Payload identical"

\* C27: the source file has a PayloadUUID that the stored payload has not:
\* the invocation ends in a KeyError before the save.
C27_NewPayloadRaises ==
    /\ call.op = "manage_mac_profile" /\ call.existed
    /\ call.args.source = <<"plist", {"uuid-1", "uuid-2"}>>
    /\ call.pre.payloads = <<"plist", {"uuid-1"}>>
    /\ call.raised = "KeyError" /\ call.saves = 0

---------------------------------------------------------------------------
(* Properties of the proxy grains.                                         *)

\* C29: the grains cache is filled once and reused.  A grains() call that
\* finds a cache returns it, leaves it as it is and sends no request; a
\* grains() call right after a grains() or grains_refresh() call that
\* returned gives the same mapping with no request; and after init every
\* grains_refresh() call drops the cache and asks the server again: it sends
\* a request, and what it returns is built from the answers to this call.
C29_FilledOnceAndReused ==
    [][/\ (call'.op = "grains" /\ GRAINS_CACHE # None) =>
              /\ call'.queries = 0 /\ call'.raised = ""
              /\ call'.ret = GRAINS_CACHE /\ GRAINS_CACHE' = GRAINS_CACHE
       /\ (call'.op = "grains" /\ call.op \in {"grains", "grains_refresh"}
           /\ call.raised = "") =>
              /\ call'.queries = 0 /\ call'.raised = "" /\ call'.ret = call.ret
       /\ (call'.op = "grains_refresh" /\ "initialized" \in Keys(DETAILS)) =>
              /\ call'.queries >= 1
              /\ \E answers \in Answers :
                    LET r == grains_fill(DETAILS, answers)
                    IN  /\ GRAINS_CACHE' = r.cache /\ call'.ret = r.ret
                        /\ call'.raised = r.raised /\ call'.queries = r.queries]_vars

\* C29: a grains() call after init that sent no request and returned the
\* complete mapping the cache held before it.
C29_ServedFromCache ==
    /\ call.op = "grains" /\ call.initialized /\ call.raised = "" /\ call.queries = 0
    /\ call.before # None /\ call.ret = call.before /\ GRAINS_CACHE = call.before
    /\ "jamf_startup_step" \in Keys(call.ret[2])

\* C30: every grains() call that returns normally returns a mapping with the
\* key jamf_setup_complete.
C30_ReturnHasSetupComplete ==
    (call.op \in {"grains", "grains_refresh"} /\ call.raised = "") =>
        "jamf_setup_complete" \in Keys(call.ret[2])

\* C30: grains() returns the empty mapping that a call before init, or a
\* health request that raised, left in the cache.
C30_EmptyCacheServed ==
    /\ call.op = "grains" /\ call.raised = "" /\ call.queries = 0
    /\ call.ret = D({})

\* C30: after init, grains() returns a mapping that has the key
\* jamf_setup_complete and ends before jamf_version: the cache of a call that
\* raised on the way.
C30_PartialCacheServed ==
    /\ call.op = "grains" /\ call.initialized /\ call.raised = ""
    /\ "jamf_setup_complete" \in Keys(call.ret[2])
    /\ <<"jamf_setup_complete", B(TRUE)>> \in call.ret[2]
    /\ "jamf_version" \notin Keys(call.ret[2])

====
